---------------------------- MODULE Spec2Model ----------------------------
(***************************************************************************)
(* Per-user conversation state machine of the "virtual respondent" bot     *)
(* (src/bot.py).                                                           *)
(*                                                                         *)
(* A Python str is modelled as the sequence of its Unicode code points, so *)
(* that strip(), lower(), startswith(), split() and string concatenation   *)
(* are computed as Python computes them.  None is the one-element tuple    *)
(* <<-1>>, which is no string because no code point is negative.           *)
(*                                                                         *)
(* Each handler registered in main() is one action.  python-telegram-bot   *)
(* dispatches updates one at a time (Application.builder() leaves          *)
(* concurrent_updates off) and call_llm blocks inside its coroutine, so a  *)
(* handler runs from its first line to its last without interleaving.      *)
(***************************************************************************)
EXTENDS Integers, Sequences, FiniteSets, TLC

VARIABLES
    user_data,   \* context.user_data of every user: a dict with at most the key "state"
    event,       \* the update handled last: handler, user, text / callback data
    pre,         \* user_data of that user as it was when the handler started
    reply,       \* texts sent by the handler (reply_text / edit_message_text), in order
    llm_calls,   \* calls of call_llm made by the handler, in order, with their outcome
    log,         \* calls of log_chat made by the handler, in order
    appended,    \* per user: the entries push_history was given since the user's
                 \* history was last emptied, the last MaxTracked of them
    running      \* the chat turns that wait in call_llm: user, text, messages sent,
                 \* user_data at the start of the handler

vars == <<user_data, event, pre, reply, llm_calls, log, appended, running>>

-----------------------------------------------------------------------------
(* String literals of src/bot.py, as code points.                          *)

None == <<-1>>

\* bot.py:226  "nachat' zanovo"
RESTART_TEXT == <<1085, 1072, 1095, 1072, 1090, 1100, 32, 1079, 1072, 1085, 1086, 1074, 1086>>

\* bot.py:226  "<U+1F504> nachat' zanovo"
RESTART_BUTTON_TEXT ==
    <<128260, 32, 1085, 1072, 1095, 1072, 1090, 1100, 32, 1079, 1072, 1085, 1086, 1074,
      1086>>

\* bot.py:245  "Hm, u menya sejchas slozhnosti s otvetom. Poprobuj eschyo raz cherez minutu."
LLM_ERROR_ANSWER ==
    <<1061, 1084, 44, 32, 1091, 32, 1084, 1077, 1085, 1103, 32, 1089, 1077, 1081,
      1095, 1072, 1089, 32, 1089, 1083, 1086, 1078, 1085, 1086, 1089, 1090, 1080, 32,
      1089, 32, 1086, 1090, 1074, 1077, 1090, 1086, 1084, 46, 32, 1055, 1086, 1087,
      1088, 1086, 1073, 1091, 1081, 32, 1077, 1097, 1105, 32, 1088, 1072, 1079, 32,
      1095, 1077, 1088, 1077, 1079, 32, 1084, 1080, 1085, 1091, 1090, 1091, 46>>

\* bot.py:235  "Otlichno, kontekst zafiksirovan. Mozhesh' nachat' zadavat' voprosy pol'zovatelyu."
DETAILS_SAVED_TEXT ==
    <<1054, 1090, 1083, 1080, 1095, 1085, 1086, 44, 32, 1082, 1086, 1085, 1090, 1077,
      1082, 1089, 1090, 32, 1079, 1072, 1092, 1080, 1082, 1089, 1080, 1088, 1086, 1074,
      1072, 1085, 46, 32, 1052, 1086, 1078, 1077, 1096, 1100, 32, 1085, 1072, 1095,
      1072, 1090, 1100, 32, 1079, 1072, 1076, 1072, 1074, 1072, 1090, 1100, 32, 1074,
      1086, 1087, 1088, 1086, 1089, 1099, 32, 1087, 1086, 1083, 1100, 1079, 1086, 1074,
      1072, 1090, 1077, 1083, 1102, 46>>

\* bot.py:254  "Poka nechego summirovat' <U+2014> napishi paru voprosov."
NOTHING_TO_SUMMARIZE_TEXT ==
    <<1055, 1086, 1082, 1072, 32, 1085, 1077, 1095, 1077, 1075, 1086, 32, 1089, 1091,
      1084, 1084, 1080, 1088, 1086, 1074, 1072, 1090, 1100, 32, 8212, 32, 1085, 1072,
      1087, 1080, 1096, 1080, 32, 1087, 1072, 1088, 1091, 32, 1074, 1086, 1087, 1088,
      1086, 1089, 1086, 1074, 46>>

\* bot.py:274  "Ne udalos' sobrat' svodku. Poprobuj eschyo raz pozzhe."
SUMMARY_ERROR_REPORT ==
    <<1053, 1077, 32, 1091, 1076, 1072, 1083, 1086, 1089, 1100, 32, 1089, 1086, 1073,
      1088, 1072, 1090, 1100, 32, 1089, 1074, 1086, 1076, 1082, 1091, 46, 32, 1055,
      1086, 1087, 1088, 1086, 1073, 1091, 1081, 32, 1077, 1097, 1105, 32, 1088, 1072,
      1079, 32, 1087, 1086, 1079, 1078, 1077, 46>>

\* bot.py:267  "Sdelaj kratkij otchyot po nashej besede: 3<U+2013>5 punktov insajtov, chto ponravilos'/..."
SUMMARY_REQUEST_TEXT ==
    <<1057, 1076, 1077, 1083, 1072, 1081, 32, 1082, 1088, 1072, 1090, 1082, 1080, 1081,
      32, 1086, 1090, 1095, 1105, 1090, 32, 1087, 1086, 32, 1085, 1072, 1096, 1077,
      1081, 32, 1073, 1077, 1089, 1077, 1076, 1077, 58, 32, 51, 8211, 53, 32,
      1087, 1091, 1085, 1082, 1090, 1086, 1074, 32, 1080, 1085, 1089, 1072, 1081, 1090,
      1086, 1074, 44, 32, 1095, 1090, 1086, 32, 1087, 1086, 1085, 1088, 1072, 1074,
      1080, 1083, 1086, 1089, 1100, 47, 1085, 1077, 32, 1087, 1086, 1085, 1088, 1072,
      1074, 1080, 1083, 1086, 1089, 1100, 44, 32, 1086, 1078, 1080, 1076, 1072, 1085,
      1080, 1103, 47, 1090, 1088, 1080, 1075, 1075, 1077, 1088, 1099, 44, 32, 1080,
      32, 51, 32, 1090, 1077, 1089, 1090, 1086, 1074, 1099, 1093, 32, 110, 101,
      120, 116, 32, 115, 116, 101, 112, 115, 32, 1076, 1083, 1103, 32, 1087,
      1088, 1086, 1076, 1091, 1082, 1090, 1072, 46, 32, 1060, 1086, 1088, 1084, 1072,
      1090, 32, 8212, 32, 1084, 1072, 1088, 1082, 1080, 1088, 1086, 1074, 1072, 1085,
      1085, 1099, 1081, 32, 1089, 1087, 1080, 1089, 1086, 1082, 46>>

\* bot.py:83  "\nKontekst utochneniya auditorii: "
SEGMENT_CONTEXT_LABEL ==
    <<10, 1050, 1086, 1085, 1090, 1077, 1082, 1089, 1090, 32, 1091, 1090, 1086, 1095,
      1085, 1077, 1085, 1080, 1103, 32, 1072, 1091, 1076, 1080, 1090, 1086, 1088, 1080,
      1080, 58, 32>>

\* bot.py:197  "Ne nashyol takuyu personu. Poprobuj eschyo raz."
PERSONA_NOT_FOUND_TEXT ==
    <<1053, 1077, 32, 1085, 1072, 1096, 1105, 1083, 32, 1090, 1072, 1082, 1091, 1102,
      32, 1087, 1077, 1088, 1089, 1086, 1085, 1091, 46, 32, 1055, 1086, 1087, 1088,
      1086, 1073, 1091, 1081, 32, 1077, 1097, 1105, 32, 1088, 1072, 1079, 46>>

\* bot.py:177  "Vyberi personu:"
PICK_PERSONA_TEXT ==
    <<1042, 1099, 1073, 1077, 1088, 1080, 32, 1087, 1077, 1088, 1089, 1086, 1085, 1091,
      58>>

\* bot.py:201  "Ok, pishi vopros. Ya otvechu ot lica vybrannoj persony."
BEGIN_CHAT_TEXT ==
    <<1054, 1082, 44, 32, 1087, 1080, 1096, 1080, 32, 1074, 1086, 1087, 1088, 1086,
      1089, 46, 32, 1071, 32, 1086, 1090, 1074, 1077, 1095, 1091, 32, 1086, 1090,
      32, 1083, 1080, 1094, 1072, 32, 1074, 1099, 1073, 1088, 1072, 1085, 1085, 1086,
      1081, 32, 1087, 1077, 1088, 1089, 1086, 1085, 1099, 46>>

\* bot.py:205  "V konce seansa otprav' komandu /summary <U+2014> soberu vyvody i insajty."
SUMMARY_HINT_TEXT ==
    <<1042, 32, 1082, 1086, 1085, 1094, 1077, 32, 1089, 1077, 1072, 1085, 1089, 1072,
      32, 1086, 1090, 1087, 1088, 1072, 1074, 1100, 32, 1082, 1086, 1084, 1072, 1085,
      1076, 1091, 32, 47, 115, 117, 109, 109, 97, 114, 121, 32, 8212, 32,
      1089, 1086, 1073, 1077, 1088, 1091, 32, 1074, 1099, 1074, 1086, 1076, 1099, 32,
      1080, 32, 1080, 1085, 1089, 1072, 1081, 1090, 1099, 46>>

\* bot.py:209  "Gotovo. Mozhesh' nachat' chat ili vybrat' personu."
BACK_HOME_TEXT ==
    <<1043, 1086, 1090, 1086, 1074, 1086, 46, 32, 1052, 1086, 1078, 1077, 1096, 1100,
      32, 1085, 1072, 1095, 1072, 1090, 1100, 32, 1095, 1072, 1090, 32, 1080, 1083,
      1080, 32, 1074, 1099, 1073, 1088, 1072, 1090, 1100, 32, 1087, 1077, 1088, 1089,
      1086, 1085, 1091, 46>>

\* bot.py:130  "Privet! Ya <U+2014> <U+00AB>Virtual'nyj respondent<U+00BB>.\n<U+2022> Vyberi personu (i..."
GREETING_TEXT ==
    <<1055, 1088, 1080, 1074, 1077, 1090, 33, 32, 1071, 32, 8212, 32, 171, 1042,
      1080, 1088, 1090, 1091, 1072, 1083, 1100, 1085, 1099, 1081, 32, 1088, 1077, 1089,
      1087, 1086, 1085, 1076, 1077, 1085, 1090, 187, 46, 10, 8226, 32, 1042, 1099,
      1073, 1077, 1088, 1080, 32, 1087, 1077, 1088, 1089, 1086, 1085, 1091, 32, 40,
      1080, 1083, 1080, 32, 1086, 1089, 1090, 1072, 1074, 1100, 32, 1087, 1086, 32,
      1091, 1084, 1086, 1083, 1095, 1072, 1085, 1080, 1102, 41, 10, 8226, 32, 1053,
      1072, 1087, 1080, 1096, 1080, 32, 1083, 1102, 1073, 1086, 1081, 32, 1074, 1086,
      1087, 1088, 1086, 1089, 32, 8212, 32, 1086, 1090, 1074, 1077, 1095, 1091, 32,
      1086, 1090, 32, 1087, 1077, 1088, 1074, 1086, 1075, 1086, 32, 1083, 1080, 1094,
      1072, 10, 8226, 32, 1042, 32, 1082, 1086, 1085, 1094, 1077, 32, 1080, 1089,
      1087, 1086, 1083, 1100, 1079, 1091, 1081, 32, 47, 115, 117, 109, 109, 97,
      114, 121, 32, 1076, 1083, 1103, 32, 1080, 1090, 1086, 1075, 1086, 1074>>

\* bot.py:138  "Vyberi dejstvie:"
CHOOSE_ACTION_TEXT ==
    <<1042, 1099, 1073, 1077, 1088, 1080, 32, 1076, 1077, 1081, 1089, 1090, 1074, 1080,
      1077, 58>>

\* bot.py:215  "/start <U+2014> nachat' zanovo\n/summary <U+2014> kratkij otchyot po tekuschemu dialogu..."
HELP_TEXT ==
    <<47, 115, 116, 97, 114, 116, 32, 8212, 32, 1085, 1072, 1095, 1072, 1090,
      1100, 32, 1079, 1072, 1085, 1086, 1074, 1086, 10, 47, 115, 117, 109, 109,
      97, 114, 121, 32, 8212, 32, 1082, 1088, 1072, 1090, 1082, 1080, 1081, 32,
      1086, 1090, 1095, 1105, 1090, 32, 1087, 1086, 32, 1090, 1077, 1082, 1091, 1097,
      1077, 1084, 1091, 32, 1076, 1080, 1072, 1083, 1086, 1075, 1091, 10, 1058, 1072,
      1082, 1078, 1077, 32, 1084, 1086, 1078, 1085, 1086, 32, 1074, 32, 1083, 1102,
      1073, 1086, 1081, 32, 1084, 1086, 1084, 1077, 1085, 1090, 32, 1087, 1080, 1089,
      1072, 1090, 1100, 32, 1074, 1086, 1087, 1088, 1086, 1089, 1099, 46>>

\* bot.py:193  "Persona ustanovlena: *"
PERSONA_SET_PREFIX ==
    <<1055, 1077, 1088, 1089, 1086, 1085, 1072, 32, 1091, 1089, 1090, 1072, 1085, 1086,
      1074, 1083, 1077, 1085, 1072, 58, 32, 42>>

\* bot.py:193  "*.\n\n"
PERSONA_SET_INFIX == <<42, 46, 10, 10>>

\* bot.py:146  "Chtoby otvety respondenta zvuchali realistichno i sootvetstvovali zadacham issledovaniy..."
QUESTION_COMMON ==
    <<1063, 1090, 1086, 1073, 1099, 32, 1086, 1090, 1074, 1077, 1090, 1099, 32, 1088,
      1077, 1089, 1087, 1086, 1085, 1076, 1077, 1085, 1090, 1072, 32, 1079, 1074, 1091,
      1095, 1072, 1083, 1080, 32, 1088, 1077, 1072, 1083, 1080, 1089, 1090, 1080, 1095,
      1085, 1086, 32, 1080, 32, 1089, 1086, 1086, 1090, 1074, 1077, 1090, 1089, 1090,
      1074, 1086, 1074, 1072, 1083, 1080, 32, 1079, 1072, 1076, 1072, 1095, 1072, 1084,
      32, 1080, 1089, 1089, 1083, 1077, 1076, 1086, 1074, 1072, 1085, 1080, 1103, 44,
      32, 1091, 1082, 1072, 1078, 1080, 32, 1082, 1083, 1102, 1095, 1077, 1074, 1086,
      1081, 32, 1082, 1088, 1080, 1090, 1077, 1088, 1080, 1081, 32, 1089, 1077, 1075,
      1084, 1077, 1085, 1090, 1072, 44, 32, 1082, 1086, 1090, 1086, 1088, 1099, 1081,
      32, 1074, 1072, 1078, 1077, 1085, 32, 1080, 1084, 1077, 1085, 1085, 1086, 32,
      1076, 1083, 1103, 32, 1090, 1074, 1086, 1077, 1075, 1086, 32, 1080, 1089, 1089,
      1083, 1077, 1076, 1086, 1074, 1072, 1085, 1080, 1103, 46, 10, 10, 9997, 65039,
      32, 1053, 1072, 1087, 1080, 1096, 1080, 32, 1082, 1086, 1088, 1086, 1090, 1082,
      1086, 58, 32, 1082, 1072, 1082, 1086, 1081, 32, 1080, 1084, 1077, 1085, 1085,
      1086, 32, 1087, 1086, 1076, 1090, 1080, 1087, 32, 1072, 1091, 1076, 1080, 1090,
      1086, 1088, 1080, 1080, 32, 1090, 1077, 1073, 1077, 32, 1085, 1091, 1078, 1077,
      1085, 32, 1080, 32, 1095, 1077, 1084, 32, 1086, 1085, 32, 1074, 1072, 1078,
      1077, 1085, 32, 1076, 1083, 1103, 32, 1090, 1077, 1089, 1090, 1072, 46, 10,
      10, 1055, 1088, 1080, 1084, 1077, 1088, 1099, 32, 1087, 1088, 1080, 1079, 1085,
      1072, 1082, 1086, 1074, 58, 10>>

\* bot.py:149  "<U+2022> vozrast rebyonka\n<U+2022> semejnoe polozhenie\n<U+2022> zanyatost'\n<U+2022> ..."
QUESTION_YOUNG_MOM ==
    <<8226, 32, 1074, 1086, 1079, 1088, 1072, 1089, 1090, 32, 1088, 1077, 1073, 1105,
      1085, 1082, 1072, 10, 8226, 32, 1089, 1077, 1084, 1077, 1081, 1085, 1086, 1077,
      32, 1087, 1086, 1083, 1086, 1078, 1077, 1085, 1080, 1077, 10, 8226, 32, 1079,
      1072, 1085, 1103, 1090, 1086, 1089, 1090, 1100, 10, 8226, 32, 1090, 1080, 1087,
      32, 1078, 1080, 1083, 1100, 1103, 10, 8226, 32, 1080, 1085, 1090, 1077, 1088,
      1077, 1089, 1099, 10, 8226, 32, 1091, 1088, 1086, 1074, 1077, 1085, 1100, 32,
      1076, 1086, 1093, 1086, 1076, 1072, 32, 1089, 1077, 1084, 1100, 1080>>

\* bot.py:155  "<U+2022> specializaciya\n<U+2022> uroven' (junior, middle, senior)\n<U+2022> format rab..."
QUESTION_IT_ENGINEER ==
    <<8226, 32, 1089, 1087, 1077, 1094, 1080, 1072, 1083, 1080, 1079, 1072, 1094, 1080,
      1103, 10, 8226, 32, 1091, 1088, 1086, 1074, 1077, 1085, 1100, 32, 40, 106,
      117, 110, 105, 111, 114, 44, 32, 109, 105, 100, 100, 108, 101, 44,
      32, 115, 101, 110, 105, 111, 114, 41, 10, 8226, 32, 1092, 1086, 1088,
      1084, 1072, 1090, 32, 1088, 1072, 1073, 1086, 1090, 1099, 10, 8226, 32, 1089,
      1090, 1088, 1072, 1085, 1072, 10, 8226, 32, 1090, 1080, 1087, 32, 1082, 1086,
      1084, 1087, 1072, 1085, 1080, 1080, 10, 8226, 32, 1087, 1088, 1080, 1086, 1088,
      1080, 1090, 1077, 1090, 1099>>

\* bot.py:161  "<U+2022> otrasl'\n<U+2022> razmer biznesa i komandy\n<U+2022> stazh predprinimatelya\n<..."
QUESTION_SMB_OWNER ==
    <<8226, 32, 1086, 1090, 1088, 1072, 1089, 1083, 1100, 10, 8226, 32, 1088, 1072,
      1079, 1084, 1077, 1088, 32, 1073, 1080, 1079, 1085, 1077, 1089, 1072, 32, 1080,
      32, 1082, 1086, 1084, 1072, 1085, 1076, 1099, 10, 8226, 32, 1089, 1090, 1072,
      1078, 32, 1087, 1088, 1077, 1076, 1087, 1088, 1080, 1085, 1080, 1084, 1072, 1090,
      1077, 1083, 1103, 10, 8226, 32, 1088, 1077, 1075, 1080, 1086, 1085, 10, 8226,
      32, 1084, 1086, 1076, 1077, 1083, 1100, 32, 1073, 1080, 1079, 1085, 1077, 1089,
      1072>>

\* bot.py:164  "Opishi, pozhalujsta, utochneniya po segmentu celevoj auditorii."
QUESTION_DEFAULT ==
    <<1054, 1087, 1080, 1096, 1080, 44, 32, 1087, 1086, 1078, 1072, 1083, 1091, 1081,
      1089, 1090, 1072, 44, 32, 1091, 1090, 1086, 1095, 1085, 1077, 1085, 1080, 1103,
      32, 1087, 1086, 32, 1089, 1077, 1075, 1084, 1077, 1085, 1090, 1091, 32, 1094,
      1077, 1083, 1077, 1074, 1086, 1081, 32, 1072, 1091, 1076, 1080, 1090, 1086, 1088,
      1080, 1080, 46>>

\* bot.py:259  "Otchyot po persone: *"
SUMMARY_INTRO_PREFIX ==
    <<1054, 1090, 1095, 1105, 1090, 32, 1087, 1086, 32, 1087, 1077, 1088, 1089, 1086,
      1085, 1077, 58, 32, 42>>

\* bot.py:259  "*"
SUMMARY_INTRO_SUFFIX == <<42>>

\* bot.py:261  "\nUtochnenie segmenta: "
SUMMARY_SEGMENT_LABEL ==
    <<10, 1059, 1090, 1086, 1095, 1085, 1077, 1085, 1080, 1077, 32, 1089, 1077, 1075,
      1084, 1077, 1085, 1090, 1072, 58, 32>>

\* bot.py:277  "\n\n<U+1F4C4> Itogi:\n"
SUMMARY_RESULTS_HEADER == <<10, 10, 128196, 32, 1048, 1090, 1086, 1075, 1080, 58, 10>>

\* bot.py:276  "[/summary]"
SUMMARY_LOG_TAG == <<91, 47, 115, 117, 109, 109, 97, 114, 121, 93>>

\* bot.py:259  "None"
NONE_TEXT == <<78, 111, 110, 101>>

\* bot.py:172  "pick_persona"
DATA_PICK_PERSONA == <<112, 105, 99, 107, 95, 112, 101, 114, 115, 111, 110, 97>>

\* bot.py:180  "persona:"
DATA_PERSONA_PREFIX == <<112, 101, 114, 115, 111, 110, 97, 58>>

\* bot.py:200  "begin_chat"
DATA_BEGIN_CHAT == <<98, 101, 103, 105, 110, 95, 99, 104, 97, 116>>

\* bot.py:204  "summary_hint"
DATA_SUMMARY_HINT == <<115, 117, 109, 109, 97, 114, 121, 95, 104, 105, 110, 116>>

\* bot.py:208  "back_home"
DATA_BACK_HOME == <<98, 97, 99, 107, 95, 104, 111, 109, 101>>

\* bot.py:145  "young_mom_moscow"
ID_YOUNG_MOM ==
    <<121, 111, 117, 110, 103, 95, 109, 111, 109, 95, 109, 111, 115, 99,
      111, 119>>

\* bot.py:151  "it_engineer"
ID_IT_ENGINEER == <<105, 116, 95, 101, 110, 103, 105, 110, 101, 101, 114>>

\* bot.py:157  "smb_owner"
ID_SMB_OWNER == <<115, 109, 98, 95, 111, 119, 110, 101, 114>>

-----------------------------------------------------------------------------
(* Python str operations used by the handlers.                             *)

\* str.isspace() for one character: the characters str.strip() removes
IsSpace(c) ==
    \/ c \in 9..13
    \/ c \in 28..32
    \/ c \in {133, 160, 5760, 8232, 8233, 8239, 8287, 12288}
    \/ c \in 8192..8202

RECURSIVE LStrip(_)
LStrip(s) ==
    IF s # <<>> /\ IsSpace(Head(s)) THEN LStrip(Tail(s)) ELSE s

RECURSIVE RStrip(_)
RStrip(s) ==
    IF s # <<>> /\ IsSpace(s[Len(s)]) THEN RStrip(SubSeq(s, 1, Len(s) - 1)) ELSE s

\* str.strip()
Strip(s) == RStrip(LStrip(s))

\* The characters str.lower() changes into one other character: runs
\* <<first, last, step, offset>> of code points first, first + step, ...,
\* last, each lowered by adding offset (Unicode 14.0.0, the character
\* database of the interpreter).  LOWER_RUNS[k + 1] holds the runs of the
\* code points 256 * k .. 256 * k + 255; no code point of a later block
\* than the last one listed is changed.
LOWER_RUNS ==
    <<
      {<<65, 90, 1, 32>>, <<192, 214, 1, 32>>, <<216, 222, 1, 32>>}, {<<256, 302, 2,
      1>>, <<306, 310, 2, 1>>, <<313, 327, 2, 1>>, <<330, 374, 2, 1>>, <<376, 376, 1,
      -121>>, <<377, 381, 2, 1>>, <<385, 385, 1, 210>>, <<386, 388, 2, 1>>, <<390, 390,
      1, 206>>, <<391, 391, 1, 1>>, <<393, 394, 1, 205>>, <<395, 395, 1, 1>>, <<398,
      398, 1, 79>>, <<399, 399, 1, 202>>, <<400, 400, 1, 203>>, <<401, 401, 1, 1>>,
      <<403, 403, 1, 205>>, <<404, 404, 1, 207>>, <<406, 406, 1, 211>>, <<407, 407, 1,
      209>>, <<408, 408, 1, 1>>, <<412, 412, 1, 211>>, <<413, 413, 1, 213>>, <<415, 415,
      1, 214>>, <<416, 420, 2, 1>>, <<422, 422, 1, 218>>, <<423, 423, 1, 1>>, <<425,
      425, 1, 218>>, <<428, 428, 1, 1>>, <<430, 430, 1, 218>>, <<431, 431, 1, 1>>,
      <<433, 434, 1, 217>>, <<435, 437, 2, 1>>, <<439, 439, 1, 219>>, <<440, 440, 1,
      1>>, <<444, 444, 1, 1>>, <<452, 452, 1, 2>>, <<453, 453, 1, 1>>, <<455, 455, 1,
      2>>, <<456, 456, 1, 1>>, <<458, 458, 1, 2>>, <<459, 475, 2, 1>>, <<478, 494, 2,
      1>>, <<497, 497, 1, 2>>, <<498, 500, 2, 1>>, <<502, 502, 1, -97>>, <<503, 503, 1,
      -56>>, <<504, 510, 2, 1>>}, {<<512, 542, 2, 1>>, <<544, 544, 1, -130>>, <<546,
      562, 2, 1>>, <<570, 570, 1, 10795>>, <<571, 571, 1, 1>>, <<573, 573, 1, -163>>,
      <<574, 574, 1, 10792>>, <<577, 577, 1, 1>>, <<579, 579, 1, -195>>, <<580, 580, 1,
      69>>, <<581, 581, 1, 71>>, <<582, 590, 2, 1>>}, {<<880, 882, 2, 1>>, <<886, 886,
      1, 1>>, <<895, 895, 1, 116>>, <<902, 902, 1, 38>>, <<904, 906, 1, 37>>, <<908,
      908, 1, 64>>, <<910, 911, 1, 63>>, <<913, 929, 1, 32>>, <<931, 939, 1, 32>>,
      <<975, 975, 1, 8>>, <<984, 1006, 2, 1>>, <<1012, 1012, 1, -60>>, <<1015, 1015, 1,
      1>>, <<1017, 1017, 1, -7>>, <<1018, 1018, 1, 1>>, <<1021, 1023, 1, -130>>},
      {<<1024, 1039, 1, 80>>, <<1040, 1071, 1, 32>>, <<1120, 1152, 2, 1>>, <<1162, 1214,
      2, 1>>, <<1216, 1216, 1, 15>>, <<1217, 1229, 2, 1>>, <<1232, 1278, 2, 1>>},
      {<<1280, 1326, 2, 1>>, <<1329, 1366, 1, 48>>}, {}, {}, {}, {}, {}, {}, {}, {}, {},
      {}, {<<4256, 4293, 1, 7264>>, <<4295, 4295, 1, 7264>>, <<4301, 4301, 1, 7264>>},
      {}, {}, {<<5024, 5103, 1, 38864>>, <<5104, 5109, 1, 8>>}, {}, {}, {}, {}, {}, {},
      {}, {}, {<<7312, 7354, 1, -3008>>, <<7357, 7359, 1, -3008>>}, {}, {<<7680, 7828,
      2, 1>>, <<7838, 7838, 1, -7615>>, <<7840, 7934, 2, 1>>}, {<<7944, 7951, 1, -8>>,
      <<7960, 7965, 1, -8>>, <<7976, 7983, 1, -8>>, <<7992, 7999, 1, -8>>, <<8008, 8013,
      1, -8>>, <<8025, 8031, 2, -8>>, <<8040, 8047, 1, -8>>, <<8072, 8079, 1, -8>>,
      <<8088, 8095, 1, -8>>, <<8104, 8111, 1, -8>>, <<8120, 8121, 1, -8>>, <<8122, 8123,
      1, -74>>, <<8124, 8124, 1, -9>>, <<8136, 8139, 1, -86>>, <<8140, 8140, 1, -9>>,
      <<8152, 8153, 1, -8>>, <<8154, 8155, 1, -100>>, <<8168, 8169, 1, -8>>, <<8170,
      8171, 1, -112>>, <<8172, 8172, 1, -7>>, <<8184, 8185, 1, -128>>, <<8186, 8187, 1,
      -126>>, <<8188, 8188, 1, -9>>}, {}, {<<8486, 8486, 1, -7517>>, <<8490, 8490, 1,
      -8383>>, <<8491, 8491, 1, -8262>>, <<8498, 8498, 1, 28>>, <<8544, 8559, 1, 16>>,
      <<8579, 8579, 1, 1>>}, {}, {}, {<<9398, 9423, 1, 26>>}, {}, {}, {}, {}, {}, {},
      {}, {<<11264, 11311, 1, 48>>, <<11360, 11360, 1, 1>>, <<11362, 11362, 1, -10743>>,
      <<11363, 11363, 1, -3814>>, <<11364, 11364, 1, -10727>>, <<11367, 11371, 2, 1>>,
      <<11373, 11373, 1, -10780>>, <<11374, 11374, 1, -10749>>, <<11375, 11375, 1,
      -10783>>, <<11376, 11376, 1, -10782>>, <<11378, 11378, 1, 1>>, <<11381, 11381, 1,
      1>>, <<11390, 11391, 1, -10815>>, <<11392, 11490, 2, 1>>, <<11499, 11501, 2, 1>>,
      <<11506, 11506, 1, 1>>}, {}, {}, {}, {}, {}, {}, {}, {}, {}, {}, {}, {}, {}, {},
      {}, {}, {}, {}, {}, {}, {}, {}, {}, {}, {}, {}, {}, {}, {}, {}, {}, {}, {}, {},
      {}, {}, {}, {}, {}, {}, {}, {}, {}, {}, {}, {}, {}, {}, {}, {}, {}, {}, {}, {},
      {}, {}, {}, {}, {}, {}, {}, {}, {}, {}, {}, {}, {}, {}, {}, {}, {}, {}, {}, {},
      {}, {}, {}, {}, {}, {}, {}, {}, {}, {}, {}, {}, {}, {}, {}, {}, {}, {}, {}, {},
      {}, {}, {}, {}, {}, {}, {}, {}, {}, {}, {}, {}, {}, {}, {}, {}, {}, {}, {}, {},
      {}, {}, {}, {}, {}, {}, {}, {<<42560, 42604, 2, 1>>, <<42624, 42650, 2, 1>>},
      {<<42786, 42798, 2, 1>>, <<42802, 42862, 2, 1>>, <<42873, 42875, 2, 1>>, <<42877,
      42877, 1, -35332>>, <<42878, 42886, 2, 1>>, <<42891, 42891, 1, 1>>, <<42893,
      42893, 1, -42280>>, <<42896, 42898, 2, 1>>, <<42902, 42920, 2, 1>>, <<42922,
      42922, 1, -42308>>, <<42923, 42923, 1, -42319>>, <<42924, 42924, 1, -42315>>,
      <<42925, 42925, 1, -42305>>, <<42926, 42926, 1, -42308>>, <<42928, 42928, 1,
      -42258>>, <<42929, 42929, 1, -42282>>, <<42930, 42930, 1, -42261>>, <<42931,
      42931, 1, 928>>, <<42932, 42946, 2, 1>>, <<42948, 42948, 1, -48>>, <<42949, 42949,
      1, -42307>>, <<42950, 42950, 1, -35384>>, <<42951, 42953, 2, 1>>, <<42960, 42960,
      1, 1>>, <<42966, 42968, 2, 1>>, <<42997, 42997, 1, 1>>}, {}, {}, {}, {}, {}, {},
      {}, {}, {}, {}, {}, {}, {}, {}, {}, {}, {}, {}, {}, {}, {}, {}, {}, {}, {}, {},
      {}, {}, {}, {}, {}, {}, {}, {}, {}, {}, {}, {}, {}, {}, {}, {}, {}, {}, {}, {},
      {}, {}, {}, {}, {}, {}, {}, {}, {}, {}, {}, {}, {}, {}, {}, {}, {}, {}, {}, {},
      {}, {}, {}, {}, {}, {}, {}, {}, {}, {}, {}, {}, {}, {}, {}, {}, {}, {}, {}, {},
      {}, {<<65313, 65338, 1, 32>>}, {}, {}, {}, {}, {<<66560, 66599, 1, 40>>, <<66736,
      66771, 1, 40>>}, {<<66928, 66938, 1, 39>>, <<66940, 66954, 1, 39>>, <<66956,
      66962, 1, 39>>, <<66964, 66965, 1, 39>>}, {}, {}, {}, {}, {}, {}, {<<68736, 68786,
      1, 64>>}, {}, {}, {}, {}, {}, {}, {}, {}, {}, {}, {}, {<<71840, 71871, 1, 32>>},
      {}, {}, {}, {}, {}, {}, {}, {}, {}, {}, {}, {}, {}, {}, {}, {}, {}, {}, {}, {},
      {}, {}, {}, {}, {}, {}, {}, {}, {}, {}, {}, {}, {}, {}, {}, {}, {}, {}, {}, {},
      {}, {}, {}, {}, {}, {}, {}, {}, {}, {}, {}, {}, {}, {}, {}, {}, {}, {}, {}, {},
      {}, {}, {}, {}, {}, {}, {}, {}, {}, {}, {}, {}, {}, {}, {}, {}, {}, {}, {}, {},
      {}, {}, {}, {}, {}, {<<93760, 93791, 1, 32>>}, {}, {}, {}, {}, {}, {}, {}, {}, {},
      {}, {}, {}, {}, {}, {}, {}, {}, {}, {}, {}, {}, {}, {}, {}, {}, {}, {}, {}, {},
      {}, {}, {}, {}, {}, {}, {}, {}, {}, {}, {}, {}, {}, {}, {}, {}, {}, {}, {}, {},
      {}, {}, {}, {}, {}, {}, {}, {}, {}, {}, {}, {}, {}, {}, {}, {}, {}, {}, {}, {},
      {}, {}, {}, {}, {}, {}, {}, {}, {}, {}, {}, {}, {}, {}, {}, {}, {}, {}, {}, {},
      {}, {}, {}, {}, {}, {}, {}, {}, {}, {}, {}, {}, {}, {}, {}, {}, {}, {}, {}, {},
      {}, {}, {}, {}, {}, {}, {}, {}, {}, {}, {}, {}, {}, {<<125184, 125217, 1, 34>>}
    >>

\* str.lower() of the one-character string c: U+0130 becomes the two
\* characters U+0069 U+0307
LowerChar(c) ==
    LET block == c \div 256
        runs  == IF block < Len(LOWER_RUNS)
                 THEN {r \in LOWER_RUNS[block + 1] :
                          r[1] <= c /\ c <= r[2] /\ (c - r[1]) % r[3] = 0}
                 ELSE {}
    IN  IF c = 304 THEN <<105, 775>>
        ELSE IF runs = {} THEN <<c>>
        ELSE <<c + (CHOOSE r \in runs : TRUE)[4]>>

\* The characters with the property Case_Ignorable, as runs <<first, last>>.
CASE_IGNORABLE ==
    {
    <<39, 39>>, <<46, 46>>, <<58, 58>>, <<94, 94>>, <<96, 96>>, <<168, 168>>, <<173,
    173>>, <<175, 175>>, <<180, 180>>, <<183, 184>>, <<688, 879>>, <<884, 885>>, <<890,
    890>>, <<900, 901>>, <<903, 903>>, <<1155, 1161>>, <<1369, 1369>>, <<1375, 1375>>,
    <<1425, 1469>>, <<1471, 1471>>, <<1473, 1474>>, <<1476, 1477>>, <<1479, 1479>>,
    <<1524, 1524>>, <<1536, 1541>>, <<1552, 1562>>, <<1564, 1564>>, <<1600, 1600>>,
    <<1611, 1631>>, <<1648, 1648>>, <<1750, 1757>>, <<1759, 1768>>, <<1770, 1773>>,
    <<1807, 1807>>, <<1809, 1809>>, <<1840, 1866>>, <<1958, 1968>>, <<2027, 2037>>,
    <<2042, 2042>>, <<2045, 2045>>, <<2070, 2093>>, <<2137, 2139>>, <<2184, 2184>>,
    <<2192, 2193>>, <<2200, 2207>>, <<2249, 2306>>, <<2362, 2362>>, <<2364, 2364>>,
    <<2369, 2376>>, <<2381, 2381>>, <<2385, 2391>>, <<2402, 2403>>, <<2417, 2417>>,
    <<2433, 2433>>, <<2492, 2492>>, <<2497, 2500>>, <<2509, 2509>>, <<2530, 2531>>,
    <<2558, 2558>>, <<2561, 2562>>, <<2620, 2620>>, <<2625, 2626>>, <<2631, 2632>>,
    <<2635, 2637>>, <<2641, 2641>>, <<2672, 2673>>, <<2677, 2677>>, <<2689, 2690>>,
    <<2748, 2748>>, <<2753, 2757>>, <<2759, 2760>>, <<2765, 2765>>, <<2786, 2787>>,
    <<2810, 2815>>, <<2817, 2817>>, <<2876, 2876>>, <<2879, 2879>>, <<2881, 2884>>,
    <<2893, 2893>>, <<2901, 2902>>, <<2914, 2915>>, <<2946, 2946>>, <<3008, 3008>>,
    <<3021, 3021>>, <<3072, 3072>>, <<3076, 3076>>, <<3132, 3132>>, <<3134, 3136>>,
    <<3142, 3144>>, <<3146, 3149>>, <<3157, 3158>>, <<3170, 3171>>, <<3201, 3201>>,
    <<3260, 3260>>, <<3263, 3263>>, <<3270, 3270>>, <<3276, 3277>>, <<3298, 3299>>,
    <<3328, 3329>>, <<3387, 3388>>, <<3393, 3396>>, <<3405, 3405>>, <<3426, 3427>>,
    <<3457, 3457>>, <<3530, 3530>>, <<3538, 3540>>, <<3542, 3542>>, <<3633, 3633>>,
    <<3636, 3642>>, <<3654, 3662>>, <<3761, 3761>>, <<3764, 3772>>, <<3782, 3782>>,
    <<3784, 3789>>, <<3864, 3865>>, <<3893, 3893>>, <<3895, 3895>>, <<3897, 3897>>,
    <<3953, 3966>>, <<3968, 3972>>, <<3974, 3975>>, <<3981, 3991>>, <<3993, 4028>>,
    <<4038, 4038>>, <<4141, 4144>>, <<4146, 4151>>, <<4153, 4154>>, <<4157, 4158>>,
    <<4184, 4185>>, <<4190, 4192>>, <<4209, 4212>>, <<4226, 4226>>, <<4229, 4230>>,
    <<4237, 4237>>, <<4253, 4253>>, <<4348, 4348>>, <<4957, 4959>>, <<5906, 5908>>,
    <<5938, 5939>>, <<5970, 5971>>, <<6002, 6003>>, <<6068, 6069>>, <<6071, 6077>>,
    <<6086, 6086>>, <<6089, 6099>>, <<6103, 6103>>, <<6109, 6109>>, <<6155, 6159>>,
    <<6211, 6211>>, <<6277, 6278>>, <<6313, 6313>>, <<6432, 6434>>, <<6439, 6440>>,
    <<6450, 6450>>, <<6457, 6459>>, <<6679, 6680>>, <<6683, 6683>>, <<6742, 6742>>,
    <<6744, 6750>>, <<6752, 6752>>, <<6754, 6754>>, <<6757, 6764>>, <<6771, 6780>>,
    <<6783, 6783>>, <<6823, 6823>>, <<6832, 6862>>, <<6912, 6915>>, <<6964, 6964>>,
    <<6966, 6970>>, <<6972, 6972>>, <<6978, 6978>>, <<7019, 7027>>, <<7040, 7041>>,
    <<7074, 7077>>, <<7080, 7081>>, <<7083, 7085>>, <<7142, 7142>>, <<7144, 7145>>,
    <<7149, 7149>>, <<7151, 7153>>, <<7212, 7219>>, <<7222, 7223>>, <<7288, 7293>>,
    <<7376, 7378>>, <<7380, 7392>>, <<7394, 7400>>, <<7405, 7405>>, <<7412, 7412>>,
    <<7416, 7417>>, <<7468, 7530>>, <<7544, 7544>>, <<7579, 7679>>, <<8125, 8125>>,
    <<8127, 8129>>, <<8141, 8143>>, <<8157, 8159>>, <<8173, 8175>>, <<8189, 8190>>,
    <<8203, 8207>>, <<8216, 8217>>, <<8228, 8228>>, <<8231, 8231>>, <<8234, 8238>>,
    <<8288, 8292>>, <<8294, 8303>>, <<8305, 8305>>, <<8319, 8319>>, <<8336, 8348>>,
    <<8400, 8432>>, <<11388, 11389>>, <<11503, 11505>>, <<11631, 11631>>, <<11647,
    11647>>, <<11744, 11775>>, <<11823, 11823>>, <<12293, 12293>>, <<12330, 12333>>,
    <<12337, 12341>>, <<12347, 12347>>, <<12441, 12446>>, <<12540, 12542>>, <<40981,
    40981>>, <<42232, 42237>>, <<42508, 42508>>, <<42607, 42610>>, <<42612, 42621>>,
    <<42623, 42623>>, <<42652, 42655>>, <<42736, 42737>>, <<42752, 42785>>, <<42864,
    42864>>, <<42888, 42890>>, <<42994, 42996>>, <<43000, 43001>>, <<43010, 43010>>,
    <<43014, 43014>>, <<43019, 43019>>, <<43045, 43046>>, <<43052, 43052>>, <<43204,
    43205>>, <<43232, 43249>>, <<43263, 43263>>, <<43302, 43309>>, <<43335, 43345>>,
    <<43392, 43394>>, <<43443, 43443>>, <<43446, 43449>>, <<43452, 43453>>, <<43471,
    43471>>, <<43493, 43494>>, <<43561, 43566>>, <<43569, 43570>>, <<43573, 43574>>,
    <<43587, 43587>>, <<43596, 43596>>, <<43632, 43632>>, <<43644, 43644>>, <<43696,
    43696>>, <<43698, 43700>>, <<43703, 43704>>, <<43710, 43711>>, <<43713, 43713>>,
    <<43741, 43741>>, <<43756, 43757>>, <<43763, 43764>>, <<43766, 43766>>, <<43867,
    43871>>, <<43881, 43883>>, <<44005, 44005>>, <<44008, 44008>>, <<44013, 44013>>,
    <<64286, 64286>>, <<64434, 64450>>, <<65024, 65039>>, <<65043, 65043>>, <<65056,
    65071>>, <<65106, 65106>>, <<65109, 65109>>, <<65279, 65279>>, <<65287, 65287>>,
    <<65294, 65294>>, <<65306, 65306>>, <<65342, 65342>>, <<65344, 65344>>, <<65392,
    65392>>, <<65438, 65439>>, <<65507, 65507>>, <<65529, 65531>>, <<66045, 66045>>,
    <<66272, 66272>>, <<66422, 66426>>, <<67456, 67461>>, <<67463, 67504>>, <<67506,
    67514>>, <<68097, 68099>>, <<68101, 68102>>, <<68108, 68111>>, <<68152, 68154>>,
    <<68159, 68159>>, <<68325, 68326>>, <<68900, 68903>>, <<69291, 69292>>, <<69446,
    69456>>, <<69506, 69509>>, <<69633, 69633>>, <<69688, 69702>>, <<69744, 69744>>,
    <<69747, 69748>>, <<69759, 69761>>, <<69811, 69814>>, <<69817, 69818>>, <<69821,
    69821>>, <<69826, 69826>>, <<69837, 69837>>, <<69888, 69890>>, <<69927, 69931>>,
    <<69933, 69940>>, <<70003, 70003>>, <<70016, 70017>>, <<70070, 70078>>, <<70089,
    70092>>, <<70095, 70095>>, <<70191, 70193>>, <<70196, 70196>>, <<70198, 70199>>,
    <<70206, 70206>>, <<70367, 70367>>, <<70371, 70378>>, <<70400, 70401>>, <<70459,
    70460>>, <<70464, 70464>>, <<70502, 70508>>, <<70512, 70516>>, <<70712, 70719>>,
    <<70722, 70724>>, <<70726, 70726>>, <<70750, 70750>>, <<70835, 70840>>, <<70842,
    70842>>, <<70847, 70848>>, <<70850, 70851>>, <<71090, 71093>>, <<71100, 71101>>,
    <<71103, 71104>>, <<71132, 71133>>, <<71219, 71226>>, <<71229, 71229>>, <<71231,
    71232>>, <<71339, 71339>>, <<71341, 71341>>, <<71344, 71349>>, <<71351, 71351>>,
    <<71453, 71455>>, <<71458, 71461>>, <<71463, 71467>>, <<71727, 71735>>, <<71737,
    71738>>, <<71995, 71996>>, <<71998, 71998>>, <<72003, 72003>>, <<72148, 72151>>,
    <<72154, 72155>>, <<72160, 72160>>, <<72193, 72202>>, <<72243, 72248>>, <<72251,
    72254>>, <<72263, 72263>>, <<72273, 72278>>, <<72281, 72283>>, <<72330, 72342>>,
    <<72344, 72345>>, <<72752, 72758>>, <<72760, 72765>>, <<72767, 72767>>, <<72850,
    72871>>, <<72874, 72880>>, <<72882, 72883>>, <<72885, 72886>>, <<73009, 73014>>,
    <<73018, 73018>>, <<73020, 73021>>, <<73023, 73029>>, <<73031, 73031>>, <<73104,
    73105>>, <<73109, 73109>>, <<73111, 73111>>, <<73459, 73460>>, <<78896, 78904>>,
    <<92912, 92916>>, <<92976, 92982>>, <<92992, 92995>>, <<94031, 94031>>, <<94095,
    94111>>, <<94176, 94177>>, <<94179, 94180>>, <<110576, 110579>>, <<110581, 110587>>,
    <<110589, 110590>>, <<113821, 113822>>, <<113824, 113827>>, <<118528, 118573>>,
    <<118576, 118598>>, <<119143, 119145>>, <<119155, 119170>>, <<119173, 119179>>,
    <<119210, 119213>>, <<119362, 119364>>, <<121344, 121398>>, <<121403, 121452>>,
    <<121461, 121461>>, <<121476, 121476>>, <<121499, 121503>>, <<121505, 121519>>,
    <<122880, 122886>>, <<122888, 122904>>, <<122907, 122913>>, <<122915, 122916>>,
    <<122918, 122922>>, <<123184, 123197>>, <<123566, 123566>>, <<123628, 123631>>,
    <<125136, 125142>>, <<125252, 125259>>, <<127995, 127999>>, <<917505, 917505>>,
    <<917536, 917631>>, <<917760, 917999>>}

\* The characters with the property Cased that are not Case_Ignorable, as
\* runs <<first, last>>.
CASED ==
    {
    <<65, 90>>, <<97, 122>>, <<170, 170>>, <<181, 181>>, <<186, 186>>, <<192, 214>>,
    <<216, 246>>, <<248, 442>>, <<444, 447>>, <<452, 659>>, <<661, 687>>, <<880, 883>>,
    <<886, 887>>, <<891, 893>>, <<895, 895>>, <<902, 902>>, <<904, 906>>, <<908, 908>>,
    <<910, 929>>, <<931, 1013>>, <<1015, 1153>>, <<1162, 1327>>, <<1329, 1366>>, <<1376,
    1416>>, <<4256, 4293>>, <<4295, 4295>>, <<4301, 4301>>, <<4304, 4346>>, <<4349,
    4351>>, <<5024, 5109>>, <<5112, 5117>>, <<7296, 7304>>, <<7312, 7354>>, <<7357,
    7359>>, <<7424, 7467>>, <<7531, 7543>>, <<7545, 7578>>, <<7680, 7957>>, <<7960,
    7965>>, <<7968, 8005>>, <<8008, 8013>>, <<8016, 8023>>, <<8025, 8025>>, <<8027,
    8027>>, <<8029, 8029>>, <<8031, 8061>>, <<8064, 8116>>, <<8118, 8124>>, <<8126,
    8126>>, <<8130, 8132>>, <<8134, 8140>>, <<8144, 8147>>, <<8150, 8155>>, <<8160,
    8172>>, <<8178, 8180>>, <<8182, 8188>>, <<8450, 8450>>, <<8455, 8455>>, <<8458,
    8467>>, <<8469, 8469>>, <<8473, 8477>>, <<8484, 8484>>, <<8486, 8486>>, <<8488,
    8488>>, <<8490, 8493>>, <<8495, 8500>>, <<8505, 8505>>, <<8508, 8511>>, <<8517,
    8521>>, <<8526, 8526>>, <<8544, 8575>>, <<8579, 8580>>, <<9398, 9449>>, <<11264,
    11387>>, <<11390, 11492>>, <<11499, 11502>>, <<11506, 11507>>, <<11520, 11557>>,
    <<11559, 11559>>, <<11565, 11565>>, <<42560, 42605>>, <<42624, 42651>>, <<42786,
    42863>>, <<42865, 42887>>, <<42891, 42894>>, <<42896, 42954>>, <<42960, 42961>>,
    <<42963, 42963>>, <<42965, 42969>>, <<42997, 42998>>, <<43002, 43002>>, <<43824,
    43866>>, <<43872, 43880>>, <<43888, 43967>>, <<64256, 64262>>, <<64275, 64279>>,
    <<65313, 65338>>, <<65345, 65370>>, <<66560, 66639>>, <<66736, 66771>>, <<66776,
    66811>>, <<66928, 66938>>, <<66940, 66954>>, <<66956, 66962>>, <<66964, 66965>>,
    <<66967, 66977>>, <<66979, 66993>>, <<66995, 67001>>, <<67003, 67004>>, <<68736,
    68786>>, <<68800, 68850>>, <<71840, 71903>>, <<93760, 93823>>, <<119808, 119892>>,
    <<119894, 119964>>, <<119966, 119967>>, <<119970, 119970>>, <<119973, 119974>>,
    <<119977, 119980>>, <<119982, 119993>>, <<119995, 119995>>, <<119997, 120003>>,
    <<120005, 120069>>, <<120071, 120074>>, <<120077, 120084>>, <<120086, 120092>>,
    <<120094, 120121>>, <<120123, 120126>>, <<120128, 120132>>, <<120134, 120134>>,
    <<120138, 120144>>, <<120146, 120485>>, <<120488, 120512>>, <<120514, 120538>>,
    <<120540, 120570>>, <<120572, 120596>>, <<120598, 120628>>, <<120630, 120654>>,
    <<120656, 120686>>, <<120688, 120712>>, <<120714, 120744>>, <<120746, 120770>>,
    <<120772, 120779>>, <<122624, 122633>>, <<122635, 122654>>, <<125184, 125251>>,
    <<127280, 127305>>, <<127312, 127337>>, <<127344, 127369>>}

IsCaseIgnorable(c) == \E r \in CASE_IGNORABLE : r[1] <= c /\ c <= r[2]

\* asked only of characters that are not case-ignorable
IsCased(c) == \E r \in CASED : r[1] <= c /\ c <= r[2]

\* The capital sigma at s[i] ends a word: the nearest character before it that
\* is not case-ignorable is cased, and the nearest such character after it, if
\* there is one, is not.
FinalSigma(s, i) ==
    LET before == {j \in 1..(i - 1) : ~IsCaseIgnorable(s[j])}
        after  == {j \in (i + 1)..Len(s) : ~IsCaseIgnorable(s[j])}
    IN  /\ before # {}
        /\ IsCased(s[CHOOSE j \in before : \A k \in before : k <= j])
        /\ \/ after = {}
           \/ ~IsCased(s[CHOOSE j \in after : \A k \in after : j <= k])

\* what str.lower() puts in the place of s[i]: U+03A3 becomes U+03C2 at the
\* end of a word; every other character is lowered by itself
LowerAt(s, i) ==
    IF s[i] = 931 /\ FinalSigma(s, i) THEN <<962>> ELSE LowerChar(s[i])

RECURSIVE LowerUpTo(_, _)
LowerUpTo(s, n) == IF n = 0 THEN <<>> ELSE LowerUpTo(s, n - 1) \o LowerAt(s, n)

\* str.lower()
Lower(s) == LowerUpTo(s, Len(s))

\* str.startswith(prefix)
StartsWith(s, prefix) ==
    /\ Len(s) >= Len(prefix)
    /\ SubSeq(s, 1, Len(prefix)) = prefix

\* f"{value}": None is rendered as the text None
Format(value) == IF value = None THEN NONE_TEXT ELSE value

\* str.split(sep, 1)[1] for a one-character separator that occurs in s
RECURSIVE AfterFirst(_, _)
AfterFirst(s, sep) ==
    IF s = <<>> THEN <<>>
    ELSE IF Head(s) = sep THEN Tail(s)
    ELSE AfterFirst(Tail(s), sep)

-----------------------------------------------------------------------------
(* Persona data.  persona.json and personas_library.json are read at       *)
(* start-up and are not part of the code; the records below are sample     *)
(* contents of the two files.                                              *)

\* "Ty respondent."
DEFAULT_PERSONA ==
    [prompt |-> <<1058, 1099, 32, 1088, 1077, 1089, 1087, 1086, 1085, 1076, 1077, 1085, 1090, 46>>]

\* "student": an id get_persona_question has no entry for
ID_STUDENT == <<115, 116, 117, 100, 101, 110, 116>>

\* titles "Ajtishnik", "Student"; prompts "Ty inzhener.", "Ty student."
PERSONAS ==
    << [id     |-> ID_IT_ENGINEER,
        title  |-> <<1040, 1081, 1090, 1080, 1096, 1085, 1080, 1082>>,
        prompt |-> <<1058, 1099, 32, 1080, 1085, 1078, 1077, 1085, 1077, 1088, 46>>],
       [id     |-> ID_STUDENT,
        title  |-> <<1057, 1090, 1091, 1076, 1077, 1085, 1090>>,
        prompt |-> <<1058, 1099, 32, 1089, 1090, 1091, 1076, 1077, 1085, 1090, 46>>] >>

MAX_HISTORY == 8

-----------------------------------------------------------------------------
(* Session state and its helpers.                                          *)

\* the dict literal get_user_state stores on first use
NewState ==
    [persona_id               |-> None,
     persona_title            |-> None,
     persona_prompt           |-> DEFAULT_PERSONA.prompt,
     segment_details          |-> <<>>,
     awaiting_segment_details |-> FALSE,
     history                  |-> <<>>]

\* dict.update: the keys of fields are overwritten, the others kept
Update(state, fields) ==
    [k \in DOMAIN state |-> IF k \in DOMAIN fields THEN fields[k] ELSE state[k]]

\* user_data after get_user_state; get_user_state returns its "state" entry
get_user_state(ud) ==
    IF "state" \in DOMAIN ud THEN ud ELSE ("state" :> NewState)

\* Faulty variant of Evict: the newest entries are dropped, not the oldest
\* (history.pop() for history.pop(0)).
RECURSIVE EvictNewest(_)
EvictNewest(history) ==
    IF Len(history) > MAX_HISTORY
    THEN EvictNewest(SubSeq(history, 1, Len(history) - 1)) ELSE history

\* while len(history) > MAX_HISTORY: history.pop(0)
RECURSIVE Evict(_)
Evict(history) ==
    IF Len(history) > MAX_HISTORY THEN Evict(Tail(history)) ELSE history

\* Faulty variant of push_history: the eviction loop is missing.
push_history_no_evict(state, role, content) ==
    [state EXCEPT !.history =
        Append(state.history, [role |-> role, content |-> content])]

\* Faulty variant of push_history: a full history is trimmed at its end, so
\* the entry just appended is the one removed.
push_history_trim_end(state, role, content) ==
    [state EXCEPT !.history =
        LET all == Append(state.history, [role |-> role, content |-> content])
        IN  IF Len(all) > MAX_HISTORY THEN SubSeq(all, 1, MAX_HISTORY) ELSE all]

push_history(state, role, content) ==
    [state EXCEPT !.history =
        Evict(Append(state.history, [role |-> role, content |-> content]))]

\* Faulty variant of history_to_messages: the audience label is appended even
\* when no segment details are set.
history_to_messages_always_label(state) ==
    <<[role    |-> "system",
       content |-> state.persona_prompt \o SEGMENT_CONTEXT_LABEL
                      \o state.segment_details]>> \o state.history

history_to_messages(state) ==
    LET persona_prompt ==
            IF state.segment_details # <<>>
            THEN state.persona_prompt \o SEGMENT_CONTEXT_LABEL \o state.segment_details
            ELSE state.persona_prompt
    IN  <<[role |-> "system", content |-> persona_prompt]>> \o state.history

\* One call of call_llm: result is what the completion service does with it,
\* [ok |-> FALSE] for any exception, else the content of the first choice.
LLMCall(messages, max_tokens, result) ==
    [messages |-> messages, max_tokens |-> max_tokens, result |-> result]

\* the value call_llm returns when it does not raise
call_llm(result) == Strip(result.content)

\* what a handler did: the user's user_data afterwards and its outputs
Done(ud, reply_, llm_calls_, log_) ==
    [user_data |-> ud, reply |-> reply_, llm_calls |-> llm_calls_, log |-> log_,
     emptied |-> FALSE, pushed |-> <<>>]

\* done, of a handler that emptied the history (a new list, or list.clear())
Emptied(done) == [done EXCEPT !.emptied = TRUE]

\* done, of a handler that gave these entries to push_history, in this order
Pushed(done, entries) == [done EXCEPT !.pushed = entries]

-----------------------------------------------------------------------------
(* Handlers.  Each takes the user's user_data (and the update's payload)   *)
(* and yields Done(...).                                                   *)

\* Faulty variant of start_fields: the "history" key is missing.
start_fields_keep_history ==
    [persona_id               |-> None,
     persona_title            |-> None,
     persona_prompt           |-> DEFAULT_PERSONA.prompt,
     segment_details          |-> <<>>,
     awaiting_segment_details |-> FALSE]

\* Faulty variant of start_fields: the "awaiting_segment_details" key is missing.
start_fields_keep_awaiting ==
    [persona_id               |-> None,
     persona_title            |-> None,
     persona_prompt           |-> DEFAULT_PERSONA.prompt,
     segment_details          |-> <<>>,
     history                  |-> <<>>]

\* the dict passed to state.update in start
start_fields ==
    [persona_id               |-> None,
     persona_title            |-> None,
     persona_prompt           |-> DEFAULT_PERSONA.prompt,
     segment_details          |-> <<>>,
     awaiting_segment_details |-> FALSE,
     history                  |-> <<>>]

start(ud) ==
    LET state == get_user_state(ud)["state"]
    IN  Emptied(Done("state" :> Update(state, start_fields),
                     <<GREETING_TEXT, CHOOSE_ACTION_TEXT>>, <<>>, <<>>))

get_persona_question(persona_id) ==
    IF persona_id = ID_YOUNG_MOM THEN QUESTION_COMMON \o QUESTION_YOUNG_MOM
    ELSE IF persona_id = ID_IT_ENGINEER THEN QUESTION_COMMON \o QUESTION_IT_ENGINEER
    ELSE IF persona_id = ID_SMB_OWNER THEN QUESTION_COMMON \o QUESTION_SMB_OWNER
    ELSE QUESTION_DEFAULT

\* next((p for p in PERSONAS if p["id"] == persona_id), None) as an index
\* into PERSONAS; 0 stands for None
FindPersona(persona_id) ==
    LET found == {i \in 1..Len(PERSONAS) : PERSONAS[i].id = persona_id}
    IN  IF found = {} THEN 0
        ELSE CHOOSE i \in found : \A j \in found : i <= j

\* Faulty variant of on_button_persona: segment_details is not cleared.
on_button_persona_keep_details(state, data) ==
    LET persona_id == AfterFirst(data, 58)
        p == FindPersona(persona_id)
    IN  IF p # 0
        THEN Done("state" :> [state EXCEPT
                     !.persona_id = persona_id,
                     !.persona_title = PERSONAS[p].title,
                     !.persona_prompt = PERSONAS[p].prompt,
                     !.history = <<>>,
                     !.awaiting_segment_details = TRUE],
                  << PERSONA_SET_PREFIX \o PERSONAS[p].title \o PERSONA_SET_INFIX
                        \o get_persona_question(persona_id) >>,
                  <<>>, <<>>)
        ELSE Done("state" :> state, <<PERSONA_NOT_FOUND_TEXT>>, <<>>, <<>>)

\* Faulty variant of on_button_persona: the session is cleared before the
\* persona is looked up.
on_button_persona_clear_first(state, data) ==
    LET persona_id == AfterFirst(data, 58)
        p == FindPersona(persona_id)
        cleared == [state EXCEPT !.history = <<>>, !.segment_details = <<>>]
    IN  IF p # 0
        THEN Done("state" :> [cleared EXCEPT
                     !.persona_id = persona_id,
                     !.persona_title = PERSONAS[p].title,
                     !.persona_prompt = PERSONAS[p].prompt,
                     !.awaiting_segment_details = TRUE],
                  << PERSONA_SET_PREFIX \o PERSONAS[p].title \o PERSONA_SET_INFIX
                        \o get_persona_question(persona_id) >>,
                  <<>>, <<>>)
        ELSE Done("state" :> cleared, <<PERSONA_NOT_FOUND_TEXT>>, <<>>, <<>>)

\* Faulty variant of on_button_persona: the history of the previous persona
\* stays.
on_button_persona_keep_history(state, data) ==
    LET persona_id == AfterFirst(data, 58)
        p == FindPersona(persona_id)
    IN  IF p # 0
        THEN Done("state" :> [state EXCEPT
                     !.persona_id = persona_id,
                     !.persona_title = PERSONAS[p].title,
                     !.persona_prompt = PERSONAS[p].prompt,
                     !.segment_details = <<>>,
                     !.awaiting_segment_details = TRUE],
                  << PERSONA_SET_PREFIX \o PERSONAS[p].title \o PERSONA_SET_INFIX
                        \o get_persona_question(persona_id) >>,
                  <<>>, <<>>)
        ELSE Done("state" :> state, <<PERSONA_NOT_FOUND_TEXT>>, <<>>, <<>>)

\* the branch query.data.startswith("persona:") of on_button
on_button_persona(state, data) ==
    LET persona_id == AfterFirst(data, 58)
        p == FindPersona(persona_id)
    IN  IF p # 0
        THEN Emptied(Done("state" :> [state EXCEPT
                     !.persona_id = persona_id,
                     !.persona_title = PERSONAS[p].title,
                     !.persona_prompt = PERSONAS[p].prompt,
                     !.history = <<>>,
                     !.segment_details = <<>>,
                     !.awaiting_segment_details = TRUE],
                  << PERSONA_SET_PREFIX \o PERSONAS[p].title \o PERSONA_SET_INFIX
                        \o get_persona_question(persona_id) >>,
                  <<>>, <<>>))
        ELSE Done("state" :> state, <<PERSONA_NOT_FOUND_TEXT>>, <<>>, <<>>)

on_button(ud, data) ==
    LET state == get_user_state(ud)["state"]
        same  == "state" :> state
    IN  IF data = DATA_PICK_PERSONA THEN Done(same, <<PICK_PERSONA_TEXT>>, <<>>, <<>>)
        ELSE IF StartsWith(data, DATA_PERSONA_PREFIX) THEN on_button_persona(state, data)
        ELSE IF data = DATA_BEGIN_CHAT THEN Done(same, <<BEGIN_CHAT_TEXT>>, <<>>, <<>>)
        ELSE IF data = DATA_SUMMARY_HINT THEN Done(same, <<SUMMARY_HINT_TEXT>>, <<>>, <<>>)
        ELSE IF data = DATA_BACK_HOME THEN Done(same, <<BACK_HOME_TEXT>>, <<>>, <<>>)
        ELSE Done(same, <<>>, <<>>, <<>>)

help_cmd(ud) == Done(ud, <<HELP_TEXT>>, <<>>, <<>>)

\* user_text.lower() in ["nachat' zanovo", "<U+1F504> nachat' zanovo"]
IsRestart(user_text) == Lower(user_text) \in {RESTART_TEXT, RESTART_BUTTON_TEXT}

\* Faulty variant of on_text_details: the details also enter the history.
on_text_details_in_history(state, user_text) ==
    Done("state" :> push_history([state EXCEPT !.awaiting_segment_details = FALSE,
                                               !.segment_details = user_text],
                                 "user", user_text),
         <<DETAILS_SAVED_TEXT>>, <<>>, <<>>)

\* on_text while the bot waits for the segment details
on_text_details(state, user_text) ==
    Done("state" :> [state EXCEPT !.awaiting_segment_details = FALSE,
                                  !.segment_details = user_text],
         <<DETAILS_SAVED_TEXT>>, <<>>, <<>>)

\* Faulty variant of on_text_chat: the prompt sent to the model is written back
\* to the session (state["persona_prompt"] += ... in history_to_messages).
on_text_chat_prompt_grows(user_id, state, user_text, result) ==
    LET asked  == push_history(state, "user", user_text)
        msgs   == history_to_messages(asked)
        call   == LLMCall(msgs, 200, result)
        answer == IF result.ok THEN call_llm(result) ELSE LLM_ERROR_ANSWER
        final  == push_history([asked EXCEPT !.persona_prompt = msgs[1].content],
                               "assistant", answer)
    IN  Done("state" :> final, <<answer>>, <<call>>,
             <<[user_id |-> user_id, user_text |-> user_text, bot_text |-> answer]>>)

\* Faulty variant of on_text_chat: a failed call is tried once more before the
\* apology is used.
on_text_chat_retry(user_id, state, user_text, result) ==
    LET asked  == push_history(state, "user", user_text)
        call   == LLMCall(history_to_messages(asked), 200, result)
        answer == IF result.ok THEN call_llm(result) ELSE LLM_ERROR_ANSWER
        final  == push_history(asked, "assistant", answer)
    IN  Pushed(Done("state" :> final, <<answer>>,
                    IF result.ok THEN <<call>> ELSE <<call, call>>,
                    <<[user_id |-> user_id, user_text |-> user_text,
                       bot_text |-> answer]>>),
               <<[role |-> "user", content |-> user_text],
                 [role |-> "assistant", content |-> answer]>>)

\* Faulty variant of on_text_chat: a failed call leaves the user entry without
\* an assistant entry after it.
on_text_chat_unpaired(user_id, state, user_text, result) ==
    LET asked  == push_history(state, "user", user_text)
        call   == LLMCall(history_to_messages(asked), 200, result)
        answer == IF result.ok THEN call_llm(result) ELSE LLM_ERROR_ANSWER
        final  == IF result.ok THEN push_history(asked, "assistant", answer) ELSE asked
    IN  Pushed(Done("state" :> final, <<answer>>, <<call>>,
                    <<[user_id |-> user_id, user_text |-> user_text,
                       bot_text |-> answer]>>),
               <<[role |-> "user", content |-> user_text]>>
                   \o (IF result.ok THEN <<[role |-> "assistant", content |-> answer]>>
                       ELSE <<>>))

\* on_text, the ordinary chat turn
on_text_chat(user_id, state, user_text, result) ==
    LET asked  == push_history(state, "user", user_text)
        call   == LLMCall(history_to_messages(asked), 200, result)
        answer == IF result.ok THEN call_llm(result) ELSE LLM_ERROR_ANSWER
        final  == push_history(asked, "assistant", answer)
    IN  Pushed(Done("state" :> final, <<answer>>, <<call>>,
                    <<[user_id |-> user_id, user_text |-> user_text,
                       bot_text |-> answer]>>),
               <<[role |-> "user", content |-> user_text],
                 [role |-> "assistant", content |-> answer]>>)

\* on_text_chat up to the call of call_llm (bot.py:240, 242): the session
\* after the first push_history and the messages given to call_llm
on_text_chat_ask(state, user_text) ==
    LET asked == push_history(state, "user", user_text)
    IN  [state |-> asked, messages |-> history_to_messages(asked)]

\* on_text_chat from the return of call_llm on (bot.py:243-248), on the session
\* as it is by then
on_text_chat_answer(user_id, state, messages, user_text, result) ==
    LET answer == IF result.ok THEN call_llm(result) ELSE LLM_ERROR_ANSWER
    IN  Pushed(Done("state" :> push_history(state, "assistant", answer),
                    <<answer>>, <<LLMCall(messages, 200, result)>>,
                    <<[user_id |-> user_id, user_text |-> user_text,
                       bot_text |-> answer]>>),
               <<[role |-> "assistant", content |-> answer]>>)

\* on_text takes the chat branch for this text
on_text_is_chat(ud, text) ==
    /\ ~IsRestart(Strip(text))
    /\ ~get_user_state(ud)["state"].awaiting_segment_details

\* Faulty variant of on_text: the pending segment details are looked at before
\* the restart phrase.
on_text_details_first(user_id, ud, text, result) ==
    LET user_text == Strip(text)
        state     == get_user_state(ud)["state"]
    IN  IF state.awaiting_segment_details THEN on_text_details(state, user_text)
        ELSE IF IsRestart(user_text) THEN start(get_user_state(ud))
        ELSE on_text_chat(user_id, state, user_text, result)

on_text(user_id, ud, text, result) ==
    LET user_text == Strip(text)
        state     == get_user_state(ud)["state"]
    IN  IF IsRestart(user_text) THEN start(get_user_state(ud))
        ELSE IF state.awaiting_segment_details THEN on_text_details(state, user_text)
        ELSE on_text_chat(user_id, state, user_text, result)

\* Faulty variant of summary_report: the exchange is pushed to the history.
summary_report_in_history(user_id, state, result) ==
    LET persona_title   == state.persona_title
        segment_details == state.segment_details
        summary_intro   ==
            SUMMARY_INTRO_PREFIX \o Format(persona_title) \o SUMMARY_INTRO_SUFFIX
              \o (IF segment_details # <<>>
                  THEN SUMMARY_SEGMENT_LABEL \o segment_details ELSE <<>>)
        asked  == push_history(state, "user", SUMMARY_REQUEST_TEXT)
        msgs   == <<[role |-> "system", content |-> state.persona_prompt]>>
                    \o asked.history
        call   == LLMCall(msgs, 350, result)
        report == IF result.ok THEN call_llm(result) ELSE SUMMARY_ERROR_REPORT
    IN  Done("state" :> push_history(asked, "assistant", report),
             <<summary_intro \o SUMMARY_RESULTS_HEADER \o report>>, <<call>>,
             <<[user_id |-> user_id, user_text |-> SUMMARY_LOG_TAG, bot_text |-> report]>>)

\* summary once the history is known to be non-empty
summary_report(user_id, state, result) ==
    LET persona_title   == state.persona_title
        segment_details == state.segment_details
        summary_intro   ==
            SUMMARY_INTRO_PREFIX \o Format(persona_title) \o SUMMARY_INTRO_SUFFIX
              \o (IF segment_details # <<>>
                  THEN SUMMARY_SEGMENT_LABEL \o segment_details ELSE <<>>)
        msgs   == <<[role |-> "system", content |-> state.persona_prompt]>>
                    \o state.history
                    \o <<[role |-> "user", content |-> SUMMARY_REQUEST_TEXT]>>
        call   == LLMCall(msgs, 350, result)
        report == IF result.ok THEN call_llm(result) ELSE SUMMARY_ERROR_REPORT
    IN  Done("state" :> state,
             <<summary_intro \o SUMMARY_RESULTS_HEADER \o report>>, <<call>>,
             <<[user_id |-> user_id, user_text |-> SUMMARY_LOG_TAG, bot_text |-> report]>>)

\* Faulty variant of summary: the check for an empty history is missing.
summary_unguarded(user_id, ud, result) ==
    summary_report(user_id, get_user_state(ud)["state"], result)

summary(user_id, ud, result) ==
    LET state == get_user_state(ud)["state"]
    IN  IF state.history = <<>>
        THEN Done("state" :> state, <<NOTHING_TO_SUMMARIZE_TEXT>>, <<>>, <<>>)
        ELSE summary_report(user_id, state, result)

-----------------------------------------------------------------------------
(* Updates the transport delivers.                                         *)

Users == {1, 2}

\* the users whose updates the specification Spec delivers
Callers == {1}

\* number of distinct answers the completion service gives
NumAnswers == 2

\* how many of the entries given to push_history the variable appended keeps;
\* more than MAX_HISTORY, so that it keeps entries the history has lost
MaxTracked == 9

\* the last n entries of seq, all of seq when it has fewer
KeepLast(seq, n) ==
    IF Len(seq) <= n THEN seq ELSE SubSeq(seq, Len(seq) - n + 1, Len(seq))

\* " Ok<i>": content of the first choice, before call_llm strips it
RawAnswer(i) == <<32, 1054, 1082, 48 + i>>

LLMResults ==
    {[ok |-> FALSE, content |-> <<>>]}
        \cup {[ok |-> TRUE, content |-> RawAnswer(i)] : i \in 1..NumAnswers}

\* " Da "
TEXT_YES == <<32, 1044, 1072, 32>>

\* " NAChAT' ZANOVO\n"
TEXT_RESTART_UPPER ==
    <<32, 1053, 1040, 1063, 1040, 1058, 1068, 32, 1047, 1040, 1053, 1054, 1042, 1054,
      10>>

\* "<U+1F504> Nachat' zanovo", the text of the reply-keyboard button (bot.py:121)
TEXT_RESTART_BUTTON ==
    <<128260, 32, 1053, 1072, 1095, 1072, 1090, 1100, 32, 1079, 1072, 1085, 1086, 1074,
      1086>>

\* update.message.text of the text messages delivered
Texts == {TEXT_YES, TEXT_RESTART_UPPER, TEXT_RESTART_BUTTON}

\* query.data of the callback queries delivered: every button the bot renders,
\* and a persona button whose id is not in PERSONAS
CallbackData ==
    {DATA_PICK_PERSONA, DATA_BEGIN_CHAT, DATA_SUMMARY_HINT, DATA_BACK_HOME}
        \cup {DATA_PERSONA_PREFIX \o PERSONAS[i].id : i \in 1..Len(PERSONAS)}
        \cup {DATA_PERSONA_PREFIX \o ID_YOUNG_MOM}

-----------------------------------------------------------------------------
(* The state machine.                                                      *)

NoEvent == [handler |-> "none", user |-> 0, data |-> <<>>]

Init ==
    /\ user_data = [u \in Users |-> <<>>]
    /\ event = NoEvent
    /\ pre = <<>>
    /\ reply = <<>>
    /\ llm_calls = <<>>
    /\ log = <<>>
    /\ appended = [u \in Users |-> <<>>]
    /\ running = {}

\* Faulty variant of Ran: one user_data dictionary serves every user.
Ran_shared(u, done) ==
    /\ user_data' = [v \in Users |-> done.user_data]
    /\ pre' = user_data[u]
    /\ reply' = done.reply
    /\ llm_calls' = done.llm_calls
    /\ log' = done.log
    /\ appended' = [appended EXCEPT ![u] =
          KeepLast((IF done.emptied THEN <<>> ELSE @) \o done.pushed, MaxTracked)]
    /\ UNCHANGED running

\* what a handler that yields done leaves behind for user u
Ran(u, done) ==
    /\ user_data' = [user_data EXCEPT ![u] = done.user_data]
    /\ pre' = user_data[u]
    /\ reply' = done.reply
    /\ llm_calls' = done.llm_calls
    /\ log' = done.log
    /\ appended' = [appended EXCEPT ![u] =
          KeepLast((IF done.emptied THEN <<>> ELSE @) \o done.pushed, MaxTracked)]
    /\ UNCHANGED running

\* CommandHandler("start", start)
CmdStart(u) ==
    /\ event' = [handler |-> "start", user |-> u, data |-> <<>>]
    /\ Ran(u, start(user_data[u]))

\* CommandHandler("help", help_cmd)
CmdHelp(u) ==
    /\ event' = [handler |-> "help_cmd", user |-> u, data |-> <<>>]
    /\ Ran(u, help_cmd(user_data[u]))

\* CommandHandler("summary", summary)
CmdSummary(u, result) ==
    /\ event' = [handler |-> "summary", user |-> u, data |-> <<>>]
    /\ Ran(u, summary(u, user_data[u], result))

\* CallbackQueryHandler(on_button)
CallbackQuery(u, data) ==
    /\ event' = [handler |-> "on_button", user |-> u, data |-> data]
    /\ Ran(u, on_button(user_data[u], data))

\* MessageHandler(filters.TEXT & ~filters.COMMAND, on_text)
TextMessage(u, text, result) ==
    /\ event' = [handler |-> "on_text", user |-> u, data |-> text]
    /\ Ran(u, on_text(u, user_data[u], text, result))

Next ==
    \E u \in Callers :
        \/ CmdStart(u)
        \/ CmdHelp(u)
        \/ \E result \in LLMResults : CmdSummary(u, result)
        \/ \E data \in CallbackData : CallbackQuery(u, data)
        \/ \E text \in Texts, result \in LLMResults : TextMessage(u, text, result)

Spec == Init /\ [][Next]_vars

-----------------------------------------------------------------------------
(* The same handlers with updates of both users.  context.user_data is the *)
(* dictionary the application keeps for the user of the update.            *)

\* the completion fails, or gives its first answer
UsersResults ==
    {[ok |-> FALSE, content |-> <<>>], [ok |-> TRUE, content |-> RawAnswer(1)]}

\* user 1 writes messages, user 2 only presses the keyboard button
UsersTexts(u) == IF u = 1 THEN {TEXT_YES} ELSE {TEXT_RESTART_BUTTON}

\* a persona of the catalog, and one that is not in it
UsersCallbackData ==
    {DATA_PERSONA_PREFIX \o ID_IT_ENGINEER, DATA_PERSONA_PREFIX \o ID_YOUNG_MOM}

NextUsers ==
    \E u \in Users :
        \/ CmdStart(u)
        \/ CmdHelp(u)
        \/ \E result \in UsersResults : CmdSummary(u, result)
        \/ \E data \in UsersCallbackData : CallbackQuery(u, data)
        \/ \E text \in UsersTexts(u), result \in UsersResults :
              TextMessage(u, text, result)

SpecUsers == Init /\ [][NextUsers]_vars

-----------------------------------------------------------------------------
(* The same machine with the chat turn in two steps, around call_llm.      *)
(* call_llm makes a blocking request from inside the coroutine, and the    *)
(* application is built without concurrent_updates, so the next update is  *)
(* taken up only when the handler of the previous one has returned.        *)

\* Faulty variant of CanDeliver: updates are handled concurrently.
CanDeliverAlways == TRUE

\* the application takes up the next update
CanDeliver == running = {}

\* on_text enters its chat branch and waits in call_llm
ChatAsk(u, text) ==
    /\ CanDeliver
    /\ on_text_is_chat(user_data[u], text)
    /\ LET user_text == Strip(text)
           ask == on_text_chat_ask(get_user_state(user_data[u])["state"], user_text)
       IN  /\ user_data' = [user_data EXCEPT ![u] = "state" :> ask.state]
           /\ running' = running \cup
                 {[user |-> u, text |-> text, messages |-> ask.messages,
                   pre |-> user_data[u]]}
           /\ appended' = [appended EXCEPT ![u] =
                 KeepLast(@ \o <<[role |-> "user", content |-> user_text]>>,
                          MaxTracked)]
    /\ event' = [handler |-> "on_text", user |-> u, data |-> text]
    /\ pre' = user_data[u]
    /\ reply' = <<>>
    /\ llm_calls' = <<>>
    /\ log' = <<>>

\* call_llm returns or raises, and on_text runs to its end
ChatAnswer(turn, result) ==
    /\ turn \in running
    /\ LET done == on_text_chat_answer(turn.user,
                       get_user_state(user_data[turn.user])["state"],
                       turn.messages, Strip(turn.text), result)
       IN  /\ user_data' = [user_data EXCEPT ![turn.user] = done.user_data]
           /\ reply' = done.reply
           /\ llm_calls' = done.llm_calls
           /\ log' = done.log
           /\ appended' = [appended EXCEPT ![turn.user] =
                 KeepLast(@ \o done.pushed, MaxTracked)]
    /\ running' = running \ {turn}
    /\ event' = [handler |-> "on_text", user |-> turn.user, data |-> turn.text]
    /\ pre' = turn.pre

LoopStart(u) ==
    /\ CanDeliver
    /\ CmdStart(u)

LoopHelp(u) ==
    /\ CanDeliver
    /\ CmdHelp(u)

LoopSummary(u, result) ==
    /\ CanDeliver
    /\ CmdSummary(u, result)

LoopCallbackQuery(u, data) ==
    /\ CanDeliver
    /\ CallbackQuery(u, data)

\* a text message that on_text handles without call_llm
LoopText(u, text) ==
    /\ CanDeliver
    /\ ~on_text_is_chat(user_data[u], text)
    /\ \E result \in LLMResults : TextMessage(u, text, result)

NextLoop ==
    \/ \E u \in Callers :
          \/ LoopStart(u)
          \/ LoopHelp(u)
          \/ \E result \in LLMResults : LoopSummary(u, result)
          \/ \E data \in CallbackData : LoopCallbackQuery(u, data)
          \/ \E text \in Texts : LoopText(u, text)
          \/ \E text \in Texts : ChatAsk(u, text)
    \/ \E turn \in running, result \in LLMResults : ChatAnswer(turn, result)

SpecLoop == Init /\ [][NextLoop]_vars

-----------------------------------------------------------------------------
(* Views of the state used by the properties.                              *)

\* the session state a handler of user u would see now
State(u) == get_user_state(user_data[u])["state"]

\* the session state the last handler saw when it started
PreState == get_user_state(pre)["state"]

\* the session state the last handler left
PostState == State(event.user)

TypeOK ==
    /\ \A u \in Users : DOMAIN user_data[u] \subseteq {"state"}
    /\ event.handler \in {"none", "start", "help_cmd", "summary", "on_button", "on_text"}
    /\ Len(llm_calls) <= 1

-----------------------------------------------------------------------------
(* Events, as the properties name them.                                    *)

\* the text on_text works with: update.message.text.strip()
EventText == Strip(event.data)

\* a text message that lower-cases to one of the two restart literals
RestartEvent ==
    /\ event.handler = "on_text"
    /\ Lower(EventText) \in {RESTART_TEXT, RESTART_BUTTON_TEXT}

\* a text message received while the session waited for the segment details
DetailEvent ==
    /\ event.handler = "on_text"
    /\ ~RestartEvent
    /\ PreState.awaiting_segment_details

\* a text message handled as an ordinary chat turn
ChatEvent ==
    /\ event.handler = "on_text"
    /\ ~RestartEvent
    /\ ~PreState.awaiting_segment_details

\* a persona button was pressed: query.data is "persona:" followed by an id
PersonaEvent ==
    /\ event.handler = "on_button"
    /\ StartsWith(event.data, DATA_PERSONA_PREFIX)

\* the id carried by the persona button
EventPersonaId == SubSeq(event.data, Len(DATA_PERSONA_PREFIX) + 1, Len(event.data))

CatalogIds == {PERSONAS[i].id : i \in 1..Len(PERSONAS)}

UserEntry(content) == [role |-> "user", content |-> content]

AssistantEntry(content) == [role |-> "assistant", content |-> content]

\* the last n entries of a sequence
LastOf(seq, n) == SubSeq(seq, Len(seq) - n + 1, Len(seq))

\* seq with one entry appended, cut from the front to MAX_HISTORY entries
Capped(seq, entry) ==
    LET all == Append(seq, entry)
    IN  IF Len(all) > MAX_HISTORY THEN LastOf(all, MAX_HISTORY) ELSE all

-----------------------------------------------------------------------------
(* Properties.                                                             *)

\* C1: the history of every session holds at most MAX_HISTORY = 8 entries, in
\* every reachable state and also between the two appends of a chat turn (the
\* messages sent to the model are the system entry plus the history as it is
\* right after the user entry was appended).
C1_HistoryBounded ==
    /\ \A u \in Users : Len(State(u).history) <= MAX_HISTORY
    /\ \A i \in 1..Len(llm_calls) :
          event.handler = "on_text" => Len(llm_calls[i].messages) - 1 <= MAX_HISTORY

\* C1 witness: a chat turn on a full history, which stays full.
C1_Witness ==
    /\ ChatEvent
    /\ Len(PreState.history) = MAX_HISTORY
    /\ Len(PostState.history) = MAX_HISTORY
    /\ Len(llm_calls[1].messages) = MAX_HISTORY + 1

\* a chat turn whose call of the model failed
FailedChatEvent ==
    /\ ChatEvent
    /\ Len(llm_calls) = 1
    /\ ~llm_calls[1].result.ok

\* C2: when the model call of a chat turn fails, the history afterwards is the
\* history before with the user message appended as its last entry and no
\* assistant entry, and the reply is the fixed apology.
C2_FailedTurnAppendsOnlyUser ==
    FailedChatEvent =>
        /\ PostState.history = Capped(PreState.history, UserEntry(EventText))
        /\ reply = <<LLM_ERROR_ANSWER>>

\* C3: a persona button whose id is in the catalog, pressed in any session
\* state, leaves the session with that persona's id, title and prompt, an empty
\* history, empty segment details and awaiting_segment_details set.
C3_PersonaSelected ==
    \A i \in 1..Len(PERSONAS) :
        (PersonaEvent /\ EventPersonaId = PERSONAS[i].id) =>
            PostState = [persona_id               |-> PERSONAS[i].id,
                         persona_title            |-> PERSONAS[i].title,
                         persona_prompt           |-> PERSONAS[i].prompt,
                         segment_details          |-> <<>>,
                         awaiting_segment_details |-> TRUE,
                         history                  |-> <<>>]

\* C3 witness: a persona is selected right after another one was selected.
C3_Witness ==
    /\ PersonaEvent
    /\ EventPersonaId \in CatalogIds
    /\ PreState.awaiting_segment_details
    /\ PreState.persona_id # None
    /\ PreState.persona_id # EventPersonaId
    /\ PostState.persona_id = EventPersonaId

\* C4: the text message received while the session awaits the segment details
\* (the first one after a persona selection) becomes segment_details, clears
\* awaiting_segment_details, leaves the history as it was and calls no model;
\* a text message received when the session does not await details is a chat
\* turn: one model call whose last message is the user entry of that text, and
\* that user entry is in the history, right before the turn's assistant entry.
C4_DetailThenChat ==
    /\ (PersonaEvent /\ EventPersonaId \in CatalogIds) =>
            PostState.awaiting_segment_details
    /\ DetailEvent =>
            /\ PostState = [PreState EXCEPT !.segment_details = EventText,
                                            !.awaiting_segment_details = FALSE]
            /\ PostState.history = PreState.history
            /\ llm_calls = <<>>
    /\ ChatEvent =>
            /\ Len(llm_calls) = 1
            /\ llm_calls[1].messages[Len(llm_calls[1].messages)] = UserEntry(EventText)
            /\ Len(PostState.history) >= 2
            /\ PostState.history[Len(PostState.history) - 1] = UserEntry(EventText)
            /\ PostState.history[Len(PostState.history)].role = "assistant"
            /\ ~PostState.awaiting_segment_details

\* C4 witness: the first chat turn of a session whose persona was selected and
\* whose segment details were captured.
C4_Witness ==
    /\ ChatEvent
    /\ PreState.persona_id # None
    /\ PreState.segment_details = EventText
    /\ PreState.history = <<>>
    /\ PostState.history[1] = UserEntry(EventText)
    /\ PostState.segment_details = PreState.segment_details

\* C5: /start leaves the session with the default prompt, no persona, an empty
\* history, empty segment details and awaiting_segment_details cleared,
\* whatever the session was before.
C5_StartResets ==
    event.handler = "start" =>
        PostState = [persona_id               |-> None,
                     persona_title            |-> None,
                     persona_prompt           |-> DEFAULT_PERSONA.prompt,
                     segment_details          |-> <<>>,
                     awaiting_segment_details |-> FALSE,
                     history                  |-> <<>>]

\* C5 witness: /start on a session with a persona, details and a history.
C5_Witness ==
    /\ event.handler = "start"
    /\ PreState.persona_id # None
    /\ PreState.segment_details # <<>>
    /\ PreState.history # <<>>
    /\ PostState.history = <<>>

\* C6: a persona button whose id is not in the catalog is answered with the
\* error text and leaves every field of the session as it was.
C6_UnknownPersonaKeepsState ==
    (PersonaEvent /\ EventPersonaId \notin CatalogIds) =>
        /\ reply = <<PERSONA_NOT_FOUND_TEXT>>
        /\ PostState = PreState

\* C6 witness: an unknown persona id on a session with a persona and a history.
C6_Witness ==
    /\ PersonaEvent
    /\ EventPersonaId \notin CatalogIds
    /\ PreState.persona_id # None
    /\ PreState.history # <<>>
    /\ PostState.history = PreState.history

\* C7: /summary on an empty history is answered with the nothing-to-summarize
\* text, calls no model and leaves the session as it was.
C7_EmptySummary ==
    (event.handler = "summary" /\ PreState.history = <<>>) =>
        /\ reply = <<NOTHING_TO_SUMMARIZE_TEXT>>
        /\ llm_calls = <<>>
        /\ PostState = PreState

\* C7 witness: /summary right after the segment details were captured.
C7_Witness ==
    /\ event.handler = "summary"
    /\ PreState.history = <<>>
    /\ PreState.segment_details # <<>>
    /\ reply = <<NOTHING_TO_SUMMARIZE_TEXT>>

\* C8: a text message that matches the restart phrase, ignoring case, leaves
\* the session exactly as /start would have left it, in every session state:
\* the text is not kept as segment details, not appended to the history and
\* not sent to the model.
C8_RestartIsStart ==
    RestartEvent =>
        /\ PostState = start(pre).user_data["state"]
        /\ reply = start(pre).reply
        /\ PostState.segment_details = <<>>
        /\ PostState.history = <<>>
        /\ ~PostState.awaiting_segment_details
        /\ llm_calls = <<>>

\* C8 witness: the phrase in upper case, received while the session awaited
\* the segment details.
C8_Witness ==
    /\ RestartEvent
    /\ event.data = TEXT_RESTART_UPPER
    /\ PreState.awaiting_segment_details
    /\ PostState.persona_id = None

\* C9: a session that awaits the segment details has a persona selected.
C9_AwaitingHasPersona ==
    \A u \in Users :
        State(u).awaiting_segment_details => State(u).persona_id # None

\* C9 witness: a session awaits the segment details.
C9_Witness ==
    \E u \in Users :
        /\ State(u).awaiting_segment_details
        /\ State(u).persona_id \in CatalogIds

\* events that may change persona_prompt: /start, the restart phrase and the
\* selection of a persona of the catalog
PromptEvent ==
    \/ event.handler = "start"
    \/ RestartEvent
    \/ PersonaEvent /\ EventPersonaId \in CatalogIds

\* C10: persona_prompt is the default prompt while no persona is selected and
\* the prompt of the selected catalog persona otherwise; only /start (or the
\* restart phrase) and a successful persona selection change it.
C10_PromptFollowsPersona ==
    /\ \A u \in Users :
          IF State(u).persona_id = None
          THEN State(u).persona_prompt = DEFAULT_PERSONA.prompt
          ELSE \E i \in 1..Len(PERSONAS) :
                  /\ PERSONAS[i].id = State(u).persona_id
                  /\ PERSONAS[i].prompt = State(u).persona_prompt
    /\ (event.handler # "none" /\ ~PromptEvent) =>
          PostState.persona_prompt = PreState.persona_prompt

\* C10 witness: a chat turn of a session with a persona and segment details,
\* whose system message is longer than the prompt the session keeps.
C10_Witness ==
    /\ ChatEvent
    /\ PreState.persona_id # None
    /\ PreState.segment_details # <<>>
    /\ llm_calls[1].messages[1].content # PreState.persona_prompt
    /\ PostState.persona_prompt = PreState.persona_prompt

\* /summary on a session whose history is not empty
SummaryEvent ==
    /\ event.handler = "summary"
    /\ PreState.history # <<>>

\* C11: /summary on a non-empty history leaves the history and every other
\* field of the session as they were, whether the model call succeeds or
\* fails: neither the report request nor the report or the failure text is
\* appended.
C11_SummaryKeepsState ==
    SummaryEvent =>
        /\ PostState = PreState
        /\ PostState.history = PreState.history
        /\ \A i \in 1..Len(PostState.history) :
              PostState.history[i].content \notin
                  {SUMMARY_REQUEST_TEXT, SUMMARY_ERROR_REPORT}

\* C11 witness: /summary on a full history, answered by the model.
C11_Witness ==
    /\ SummaryEvent
    /\ Len(PreState.history) = MAX_HISTORY
    /\ Len(llm_calls) = 1
    /\ llm_calls[1].result.ok
    /\ PostState.history = PreState.history

\* the text the model returned to the last handler's only call
ModelText == Strip(llm_calls[1].result.content)

\* the lines that open the summary reply: the persona title of the session
\* (the text None when no persona is selected) and, when segment details are
\* set, the segment details
SummaryPrefix ==
    SUMMARY_INTRO_PREFIX
      \o (IF PreState.persona_title = None THEN NONE_TEXT ELSE PreState.persona_title)
      \o SUMMARY_INTRO_SUFFIX
      \o (IF PreState.segment_details # <<>>
          THEN SUMMARY_SEGMENT_LABEL \o PreState.segment_details ELSE <<>>)
      \o SUMMARY_RESULTS_HEADER

\* C12 as stated: on /summary with a non-empty history the reply is the report
\* prefixed with the persona title and the segment details when the model call
\* succeeds, and the fixed could-not-build-summary text when it fails.
C12_ReplyAsStated ==
    SummaryEvent =>
        /\ Len(llm_calls) = 1
        /\ reply = IF llm_calls[1].result.ok
                   THEN <<SummaryPrefix \o ModelText>>
                   ELSE <<SUMMARY_ERROR_REPORT>>

\* msgs is what buildMessages is to return for state: one system entry, then
\* the history oldest first; the system content is the prompt, followed by the
\* audience label and the segment details exactly when details are set
MessagesOf(msgs, state) ==
    /\ Len(msgs) = Len(state.history) + 1
    /\ Len(msgs) <= MAX_HISTORY + 1
    /\ msgs[1].role = "system"
    /\ \A i \in 1..Len(state.history) :
          /\ msgs[i + 1] = state.history[i]
          /\ msgs[i + 1].role # "system"
    /\ state.segment_details = <<>> => msgs[1].content = state.persona_prompt
    /\ state.segment_details # <<>> =>
          /\ msgs[1].content # state.persona_prompt
          /\ msgs[1].content =
                state.persona_prompt \o SEGMENT_CONTEXT_LABEL \o state.segment_details

\* C13: for every session state history_to_messages gives one system entry
\* followed by the history in order, at most MAX_HISTORY + 1 = 9 messages, the
\* system content carrying the audience suffix exactly when segment details
\* are set; the messages a chat turn sends are these, and building them leaves
\* the session as it was (the turn changes the history only by its appends).
C13_MessagesFromState ==
    /\ \A u \in Users : MessagesOf(history_to_messages(State(u)), State(u))
    /\ ChatEvent =>
          /\ MessagesOf(llm_calls[1].messages,
                        [PreState EXCEPT !.history =
                            Capped(PreState.history, UserEntry(EventText))])
          /\ [PostState EXCEPT !.history = <<>>] = [PreState EXCEPT !.history = <<>>]

\* C13 witness: a chat turn on a full history of a session with segment
\* details: nine messages, the first with the suffix.
C13_Witness ==
    /\ ChatEvent
    /\ PreState.segment_details # <<>>
    /\ Len(PreState.history) = MAX_HISTORY
    /\ Len(llm_calls[1].messages) = MAX_HISTORY + 1
    /\ LastOf(llm_calls[1].messages[1].content, Len(PreState.segment_details))
          = PreState.segment_details

\* C14: eviction is first in, first out: with n entries given to push_history
\* since the history was last emptied, the history is the last min(n, 8) of
\* them in their order, in every state and also between the two appends of a
\* chat turn.  (appended keeps the last MaxTracked > 8 of the n entries, and
\* the last min(n, 8) of the n are the last min(n, 8) of those.)
C14_HistoryIsNewestEntries ==
    /\ \A u \in Users :
          LET n == Len(appended[u])
              k == IF n < MAX_HISTORY THEN n ELSE MAX_HISTORY
          IN  /\ Len(State(u).history) = k
              /\ \A i \in 1..k : State(u).history[i] = appended[u][n - k + i]
    /\ ChatEvent =>
          LET sent == Tail(llm_calls[1].messages)
              n    == Len(appended[event.user]) - 1
              k    == IF n < MAX_HISTORY THEN n ELSE MAX_HISTORY
          IN  /\ Len(sent) = k
              /\ \A i \in 1..k : sent[i] = appended[event.user][n - k + i]

\* C14 witness: more than eight entries were appended; the history is the
\* last eight, and the newest entry it lost (an answer) differs from the
\* answers that are now its oldest and its newest.
C14_Witness ==
    \E u \in Users :
        /\ Len(appended[u]) = MAX_HISTORY + 1
        /\ State(u).history = SubSeq(appended[u], 2, MAX_HISTORY + 1)
        /\ appended[u][1] # appended[u][3]
        /\ appended[u][1] # appended[u][MAX_HISTORY + 1]

\* C15: a chat turn and a /summary on a non-empty history each call the model
\* exactly once, whether the call succeeds or fails; after a failed call the
\* handler goes on to its last statement, the reply, which carries the
\* fallback text (so the failure did not leave the handler), and logs it.
C15_SingleCallThenFallback ==
    /\ (ChatEvent \/ SummaryEvent) =>
          /\ Len(llm_calls) = 1
          /\ Len(reply) = 1
          /\ Len(log) = 1
    /\ (ChatEvent /\ ~llm_calls[1].result.ok) =>
          /\ reply = <<LLM_ERROR_ANSWER>>
          /\ log[1].bot_text = LLM_ERROR_ANSWER
    /\ (SummaryEvent /\ ~llm_calls[1].result.ok) =>
          /\ Len(reply[1]) > Len(SUMMARY_ERROR_REPORT)
          /\ LastOf(reply[1], Len(SUMMARY_ERROR_REPORT)) = SUMMARY_ERROR_REPORT
          /\ log[1].bot_text = SUMMARY_ERROR_REPORT

\* C15 witness: a chat turn whose only call failed, on a history that already
\* holds the apology of an earlier failed turn.
C15_Witness ==
    /\ ChatEvent
    /\ Len(llm_calls) = 1
    /\ ~llm_calls[1].result.ok
    /\ \E i \in 1..Len(PreState.history) :
          PreState.history[i].content = LLM_ERROR_ANSWER
    /\ reply = <<LLM_ERROR_ANSWER>>

\* C16: updates are handled one at a time.  While a chat turn waits in
\* call_llm it is the only handler under way and no other update has been
\* handled since it began: the session is the one it found, plus its user
\* entry.  When the turn completes, the history is the one it found with its
\* user entry and its assistant entry appended next to each other, and nothing
\* else in the session has changed.
C16_OneUpdateAtATime ==
    /\ Cardinality(running) <= 1
    /\ \A turn \in running :
          /\ event = [handler |-> "on_text", user |-> turn.user, data |-> turn.text]
          /\ pre = turn.pre
          /\ llm_calls = <<>>
          /\ PostState =
                [PreState EXCEPT !.history =
                    Capped(PreState.history, UserEntry(Strip(turn.text)))]
    /\ (running = {} /\ ChatEvent) =>
          /\ Len(llm_calls) = 1
          /\ Len(reply) = 1
          /\ PostState =
                [PreState EXCEPT !.history =
                    Capped(Capped(PreState.history, UserEntry(EventText)),
                           AssistantEntry(reply[1]))]

\* C16 witness: a chat turn waits in call_llm with the history full, its user
\* entry being the newest.
C16_Witness ==
    \E turn \in running :
        /\ Len(State(turn.user).history) = MAX_HISTORY
        /\ State(turn.user).history[MAX_HISTORY] = UserEntry(Strip(turn.text))
        /\ State(turn.user).history[1].role = "assistant"

\* C17: sessions of different users are independent.  Whatever update is
\* handled for one user, the session of every other user stays as it was,
\* every field of it, its history included: an entry appended to one user's
\* history never shows up in another's.
C17_UsersIndependent ==
    [][\A u \in Users :
          u # event'.user =>
              /\ user_data'[u] = user_data[u]
              /\ appended'[u] = appended[u]]_vars

\* C17 witness: user 1 has completed a chat turn on a full history while
\* user 2 has a session of their own, waiting for segment details.
C17_Witness ==
    /\ ChatEvent
    /\ event.user = 1
    /\ Len(PreState.history) = MAX_HISTORY
    /\ user_data[2] # <<>>
    /\ State(2).awaiting_segment_details
    /\ State(2).history = <<>>

\* C18: between updates the history of every session has even length, and
\* its entries alternate, a user entry first and an assistant entry last:
\* every chat turn has left one user entry and one assistant entry after it
\* (the apology when the call failed), and eviction removes them in pairs.
C18_HistoryPaired ==
    \A u \in Users :
        LET history == State(u).history
        IN  /\ Len(history) % 2 = 0
            /\ \A i \in 1..Len(history) :
                  history[i].role = IF i % 2 = 1 THEN "user" ELSE "assistant"

\* C18 witness: a full history that has lost entries to eviction and holds the
\* apology of a failed turn as well as an answer.
C18_Witness ==
    /\ ChatEvent
    /\ Len(PostState.history) = MAX_HISTORY
    /\ Len(appended[event.user]) > MAX_HISTORY
    /\ \E i \in 1..MAX_HISTORY : PostState.history[i] = AssistantEntry(LLM_ERROR_ANSWER)
    /\ \E i \in 1..MAX_HISTORY :
          /\ PostState.history[i].role = "assistant"
          /\ PostState.history[i].content # LLM_ERROR_ANSWER

\* C19: a session that waits for segment details has an empty history and
\* empty segment details; so /summary received while the session waits is
\* answered with the nothing-to-summarize text and calls no model.
C19_AwaitingIsEmpty ==
    /\ \A u \in Users :
          State(u).awaiting_segment_details =>
              /\ State(u).history = <<>>
              /\ State(u).segment_details = <<>>
    /\ (event.handler = "summary" /\ PreState.awaiting_segment_details) =>
          /\ reply = <<NOTHING_TO_SUMMARIZE_TEXT>>
          /\ llm_calls = <<>>
          /\ PostState.awaiting_segment_details

\* C19 witness: /summary while the session waits for the details of the second
\* persona of the catalog.
C19_Witness ==
    /\ event.handler = "summary"
    /\ PreState.awaiting_segment_details
    /\ PreState.persona_id = ID_STUDENT
    /\ reply = <<NOTHING_TO_SUMMARIZE_TEXT>>

\* C20: the messages of the model call of a chat turn end with the user
\* message just received (role user, content the text as on_text reads it,
\* update.message.text.strip()), also when the history was full before the
\* turn: after the system message come the entries of the history before the
\* turn, without its oldest one when it was full, and then the new user entry.
C20_CallEndsWithUserMessage ==
    ChatEvent =>
        /\ Len(llm_calls) = 1
        /\ LET messages == llm_calls[1].messages
           IN  /\ messages[Len(messages)] = UserEntry(EventText)
               /\ Tail(messages) =
                     IF Len(PreState.history) = MAX_HISTORY
                     THEN Append(Tail(PreState.history), UserEntry(EventText))
                     ELSE Append(PreState.history, UserEntry(EventText))
               /\ Len(messages) <= MAX_HISTORY + 1

\* C20 witness: a chat turn on a full history, whose call has the system
\* message and MAX_HISTORY entries, the last of them the new user entry.
C20_Witness ==
    /\ ChatEvent
    /\ Len(PreState.history) = MAX_HISTORY
    /\ Len(llm_calls) = 1
    /\ Len(llm_calls[1].messages) = MAX_HISTORY + 1
    /\ llm_calls[1].messages[MAX_HISTORY + 1] = UserEntry(EventText)
    /\ llm_calls[1].messages[MAX_HISTORY].role = "assistant"

=============================================================================
